---------------------------- MODULE Spec2Model ----------------------------
(***************************************************************************)
(* A model of the deduplication and multi-stage curation pipeline of the   *)
(* ai-newsletter-pipeline repository:                                      *)
(*   src/processors/deduplicator.py       (class Deduplicator)             *)
(*   src/processors/multi_stage_digest.py (class MultiStageDigestProcessor)*)
(*                                                                         *)
(* Text is modelled as a sequence of one-character strings, so that the    *)
(* normalisers, the content hash and difflib's SequenceMatcher are         *)
(* computed character by character, as the code computes them.             *)
(***************************************************************************)
EXTENDS Integers, Sequences, FiniteSets, TLC

(***************************************************************************)
(* Bounds of the model.                                                    *)
(***************************************************************************)
MaxWww == 2
MaxPrefixes == 2
MaxSuffixes == 2

(***************************************************************************)
(* Text primitives (Python str methods on the characters the model uses).  *)
(***************************************************************************)
UpperToLower ==
    ("A" :> "a") @@ ("B" :> "b") @@ ("C" :> "c") @@ ("H" :> "h") @@
    ("N" :> "n") @@ ("P" :> "p") @@ ("T" :> "t") @@ ("W" :> "w") @@
    ("X" :> "x")

LowerChar(c) == IF c \in DOMAIN UpperToLower THEN UpperToLower[c] ELSE c

Lower(s) == [i \in 1..Len(s) |-> LowerChar(s[i])]

IsSpace(c) == c = " "

Slice(s, lo, hi) == IF lo > hi THEN << >> ELSE SubSeq(s, lo, hi)

RECURSIVE LStrip(_)
LStrip(s) == IF s # << >> /\ IsSpace(Head(s)) THEN LStrip(Tail(s)) ELSE s

RECURSIVE RStrip(_)
RStrip(s) ==
    IF s # << >> /\ IsSpace(s[Len(s)]) THEN RStrip(Slice(s, 1, Len(s) - 1)) ELSE s

Strip(s) == RStrip(LStrip(s))

RECURSIVE RStripChar(_, _)
RStripChar(s, c) ==
    IF s # << >> /\ s[Len(s)] = c THEN RStripChar(Slice(s, 1, Len(s) - 1), c) ELSE s

StartsWith(s, p) == Len(s) >= Len(p) /\ Slice(s, 1, Len(p)) = p

\* str.find: the first index (1-based) of character c in s, 0 when absent.
Find(s, c) ==
    IF \E i \in 1..Len(s) : s[i] = c
    THEN CHOOSE i \in 1..Len(s) : s[i] = c /\ \A j \in 1..(i - 1) : s[j] # c
    ELSE 0

\* The first index at or after position from of any character of set cs; Len(s)+1 when none.
FindAny(s, cs, from) ==
    IF \E i \in from..Len(s) : s[i] \in cs
    THEN CHOOSE i \in from..Len(s) : s[i] \in cs /\ \A j \in from..(i - 1) : s[j] \notin cs
    ELSE Len(s) + 1

RECURSIVE Concat(_)
Concat(ss) == IF ss = << >> THEN << >> ELSE Head(ss) \o Concat(Tail(ss))

RECURSIVE Repeat(_, _)
Repeat(s, n) == IF n = 0 THEN << >> ELSE s \o Repeat(s, n - 1)

(***************************************************************************)
(* urllib.parse.urlparse, as far as normalize_url reads it: scheme, netloc *)
(* and path.  The model's URLs hold no ';', '[' or ']' and no control      *)
(* characters, so the params split and the ValueError path do not arise.   *)
(***************************************************************************)
Letters ==
    {"a", "b", "c", "h", "m", "o", "p", "s", "t", "u", "w", "x", "f"}
        \cup DOMAIN UpperToLower

SchemeChars == Letters \cup {"0", "1", "+", "-", "."}

\* up to, and not including, the first occurrence of the character c
Before(s, c) == IF Find(s, c) > 0 THEN Slice(s, 1, Find(s, c) - 1) ELSE s

HasScheme(url, colon) ==
    /\ colon > 1
    /\ url[1] \in Letters
    /\ \A i \in 1..(colon - 1) : url[i] \in SchemeChars

SchemeOf(url) ==
    IF HasScheme(url, Find(url, ":")) THEN Lower(Before(url, ":")) ELSE << >>

AfterScheme(url) ==
    IF HasScheme(url, Find(url, ":"))
    THEN Slice(url, Find(url, ":") + 1, Len(url))
    ELSE url

HasNetloc(rest) == StartsWith(rest, <<"/", "/">>)

NetlocEnd(rest) == FindAny(rest, {"/", "?", "#"}, 3)

NetlocOf(rest) ==
    IF HasNetloc(rest) THEN Slice(rest, 3, NetlocEnd(rest) - 1) ELSE << >>

AfterNetloc(rest) ==
    IF HasNetloc(rest) THEN Slice(rest, NetlocEnd(rest), Len(rest)) ELSE rest

\* the fragment is cut first, then the query
PathOf(after_netloc) == Before(Before(after_netloc, "#"), "?")

UrlParts(scheme, rest) ==
    [scheme |-> scheme, netloc |-> NetlocOf(rest), path |-> PathOf(AfterNetloc(rest))]

urlparse(url) == UrlParts(SchemeOf(url), AfterScheme(url))

WwwDot == <<"w", "w", "w", ".">>

StripWww(domain) ==
    IF StartsWith(domain, WwwDot) THEN Slice(domain, 5, Len(domain)) ELSE domain

Normalized(parsed) ==
    parsed.scheme \o <<":", "/", "/">> \o StripWww(Lower(parsed.netloc))
        \o Lower(RStripChar(parsed.path, "/"))

\* a normaliser that keeps the query string and the fragment
WholeUrl(url) == Lower(url)

normalize_url(url) == IF url = << >> THEN << >> ELSE Normalized(urlparse(url))

(***************************************************************************)
(* normalize_title.                                                        *)
(***************************************************************************)
prefixes ==
    << <<"b", "r", "e", "a", "k", "i", "n", "g", ":">>,
       <<"n", "e", "w", "s", ":">>,
       <<"u", "p", "d", "a", "t", "e", ":">>,
       <<"e", "x", "c", "l", "u", "s", "i", "v", "e", ":">>,
       <<"r", "e", "p", "o", "r", "t", ":">> >>

\* for prefix in prefixes: if startswith: cut it, strip, break
StripPrefix(s) ==
    IF \E k \in 1..Len(prefixes) : StartsWith(s, prefixes[k])
    THEN LET k == CHOOSE k \in 1..Len(prefixes) :
                     /\ StartsWith(s, prefixes[k])
                     /\ \A j \in 1..(k - 1) : ~StartsWith(s, prefixes[j])
         IN Strip(Slice(s, Len(prefixes[k]) + 1, Len(s)))
    ELSE s

Separators == {"|", "*"}  \* "*" stands for the bullet and the middle dot

\* re.sub(r'\s*[|•·]\s*[^|•·]*$', '', s): the last separator, the blanks before
\* it and everything after it are removed.
StripSuffix(s) ==
    IF \E i \in 1..Len(s) : s[i] \in Separators
    THEN LET last == CHOOSE i \in 1..Len(s) :
                        /\ s[i] \in Separators
                        /\ \A j \in (i + 1)..Len(s) : s[j] \notin Separators
         IN RStrip(Slice(s, 1, last - 1))
    ELSE s

\* re.sub(r'[c]{2,}', 'c', s): every run of two or more c becomes one c.
RECURSIVE SqueezeChar(_, _)
SqueezeChar(s, c) ==
    IF Len(s) < 2 THEN s
    ELSE IF s[1] = c /\ s[2] = c THEN SqueezeChar(Tail(s), c)
    ELSE <<Head(s)>> \o SqueezeChar(Tail(s), c)

\* ' '.join(s.split()): runs of blanks become one blank, none at either end.
CollapseWhitespace(s) == SqueezeChar(Strip(s), " ")

normalize_title(title) ==
    LET lowered == Lower(title)
        noPrefix == StripPrefix(lowered)
        noSuffix == StripSuffix(noPrefix)
        noBangs == SqueezeChar(SqueezeChar(noSuffix, "!"), "?")
    IN Strip(CollapseWhitespace(noBangs))

(***************************************************************************)
(* difflib.SequenceMatcher(None, a, b).ratio().  No junk function is given *)
(* and every text of the model is shorter than 200 characters, so the      *)
(* autojunk heuristic never applies.  Indices are 1-based and inclusive.   *)
(***************************************************************************)
RECURSIVE CommonLen(_, _, _, _, _, _)
CommonLen(a, b, i, j, ahi, bhi) ==
    IF i > ahi \/ j > bhi THEN 0
    ELSE IF a[i] # b[j] THEN 0
    ELSE 1 + CommonLen(a, b, i + 1, j + 1, ahi, bhi)

\* The longest matching block; of those the one starting earliest in a, and of
\* those the one starting earliest in b.  Size 0 when nothing matches.
find_longest_match(a, b, alo, ahi, blo, bhi) ==
    LET Size(i, j) == CommonLen(a, b, i, j, ahi, bhi)
        sizes == {Size(p[1], p[2]) : p \in (alo..ahi) \X (blo..bhi)}
        bestsize == CHOOSE n \in sizes : \A m \in sizes : n >= m
        besti == CHOOSE i \in alo..ahi :
                     /\ \E j \in blo..bhi : Size(i, j) = bestsize
                     /\ \A h \in alo..(i - 1) : \A j \in blo..bhi : Size(h, j) # bestsize
        bestj == CHOOSE j \in blo..bhi :
                     /\ Size(besti, j) = bestsize
                     /\ \A h \in blo..(j - 1) : Size(besti, h) # bestsize
    IN IF sizes = {} \/ bestsize = 0 THEN [i |-> alo, j |-> blo, size |-> 0]
       ELSE [i |-> besti, j |-> bestj, size |-> bestsize]

\* The total size of get_matching_blocks: the longest block, then the same to
\* its left and to its right.
RECURSIVE MatchedChars(_, _, _, _, _, _)
MatchedChars(a, b, alo, ahi, blo, bhi) ==
    IF alo > ahi \/ blo > bhi THEN 0
    ELSE LET m == find_longest_match(a, b, alo, ahi, blo, bhi)
         IN IF m.size = 0 THEN 0
            ELSE m.size
                 + MatchedChars(a, b, alo, m.i - 1, blo, m.j - 1)
                 + MatchedChars(a, b, m.i + m.size, ahi, m.j + m.size, bhi)

\* A similarity is the exact fraction num/den (ratio() is 2.0 * M / T).
Zero == [num |-> 0, den |-> 1]

ratio(a, b) ==
    [num |-> 2 * MatchedChars(a, b, 1, Len(a), 1, Len(b)), den |-> Len(a) + Len(b)]

calculate_text_similarity(text1, text2) ==
    IF text1 = << >> \/ text2 = << >> THEN Zero
    ELSE ratio(Lower(text1), Lower(text2))

\* similarity > p/q
Exceeds(sim, p, q) == sim.num * q > p * sim.den

(***************************************************************************)
(* calculate_content_hash: lower, strip, runs of blanks to one blank, then *)
(* every character that is neither a word character nor a blank removed.   *)
(* md5 is taken to be injective: two hashes are equal exactly when the     *)
(* normalised texts are.                                                   *)
(***************************************************************************)
WordChars ==
    {"a", "b", "c", "d", "e", "f", "g", "h", "i", "j", "k", "l", "m", "n", "o",
     "p", "q", "r", "s", "t", "u", "v", "w", "x", "y", "z", "0", "1", "2", "3",
     "4", "5", "6", "7", "8", "9", "_"} \cup DOMAIN UpperToLower

Digits == {"0", "1", "2", "3", "4", "5", "6", "7", "8", "9"}

RECURSIVE Keep(_, _)
Keep(s, cs) ==
    IF s = << >> THEN << >>
    ELSE IF Head(s) \in cs THEN <<Head(s)>> \o Keep(Tail(s), cs)
    ELSE Keep(Tail(s), cs)

calculate_content_hash(content) ==
    Keep(SqueezeChar(Lower(Strip(content)), " "), WordChars \cup {" "})

(***************************************************************************)
(* create_title_key: the first five meaningful words of a normalised title.*)
(***************************************************************************)
common_words ==
    { <<"t", "h", "e">>,
      <<"a">>,
      <<"a", "n">>,
      <<"a", "n", "d">>,
      <<"o", "r">>,
      <<"b", "u", "t">>,
      <<"i", "n">>,
      <<"o", "n">>,
      <<"a", "t">>,
      <<"t", "o">>,
      <<"f", "o", "r">>,
      <<"o", "f">>,
      <<"w", "i", "t", "h">>,
      <<"b", "y">>,
      <<"i", "s">>,
      <<"a", "r", "e">>,
      <<"w", "a", "s">>,
      <<"w", "e", "r", "e">>,
      <<"b", "e">>,
      <<"b", "e", "e", "n">>,
      <<"b", "e", "i", "n", "g">>,
      <<"h", "a", "v", "e">>,
      <<"h", "a", "s">>,
      <<"h", "a", "d">>,
      <<"d", "o">>,
      <<"d", "o", "e", "s">>,
      <<"d", "i", "d">>,
      <<"w", "i", "l", "l">>,
      <<"w", "o", "u", "l", "d">>,
      <<"c", "o", "u", "l", "d">>,
      <<"s", "h", "o", "u", "l", "d">>,
      <<"m", "a", "y">>,
      <<"m", "i", "g", "h", "t">>,
      <<"c", "a", "n">>,
      <<"s", "h", "a", "l", "l">>,
      <<"m", "u", "s", "t">> }

\* str.split(): the words between runs of blanks.
RECURSIVE Split(_)
Split(s) ==
    LET t == LStrip(s)
    IN IF t = << >> THEN << >>
       ELSE LET stop == FindAny(t, {" "}, 1)
            IN <<Slice(t, 1, stop - 1)>> \o Split(Slice(t, stop, Len(t)))

RECURSIVE Join(_)
Join(ws) ==
    IF ws = << >> THEN << >>
    ELSE IF Len(ws) = 1 THEN ws[1]
    ELSE ws[1] \o <<" ">> \o Join(Tail(ws))

RECURSIVE KeyWords(_)
KeyWords(ws) ==
    IF ws = << >> THEN << >>
    ELSE LET clean_word == Keep(Head(ws), WordChars)
             meaningful == /\ Len(clean_word) > 2
                           /\ Lower(clean_word) \notin common_words
                           /\ \E i \in 1..Len(clean_word) : clean_word[i] \notin Digits
         IN (IF meaningful THEN <<Lower(clean_word)>> ELSE << >>) \o KeyWords(Tail(ws))

KeyWordLimit == 5

create_title_key(normalized_title) ==
    LET key_words == KeyWords(Split(normalized_title))
    IN Join(Slice(key_words, 1, IF Len(key_words) < KeyWordLimit
                                 THEN Len(key_words) ELSE KeyWordLimit))

(***************************************************************************)
(* Articles.  An article is a record; id stands for the identity of the    *)
(* Python dict object (the code compares with `is`), the other fields are  *)
(* the dict's keys.  Missing stands for a key the dict does not hold.      *)
(*   relevance_score : a number, or NoScore when the key is missing        *)
(*   published_at    : a day number, or NoDate when missing / None         *)
(*   tags            : the set of the tags list's elements                 *)
(***************************************************************************)
Missing == <<"<missing>">>

NoScore == -1

NoDate == 0

Get(value, default) == IF value = Missing THEN default ELSE value

\* source_type is a plain string; MissingType stands for a dict without the key.
MissingType == "<missing>"

GetType(article) == IF article.source_type = MissingType THEN "" ELSE article.source_type

\* Equality of two dicts (==): every key and value, not the identity.
SameValue(x, y) == [x EXCEPT !.id = 0] = [y EXCEPT !.id = 0]

(***************************************************************************)
(* Deduplicator, step 1: remove_url_duplicates.                            *)
(***************************************************************************)
RECURSIVE UrlLoop(_, _, _)
UrlLoop(rest, seen_urls, unique_articles) ==
    IF rest = << >> THEN unique_articles
    ELSE LET article == Head(rest)
             url == Strip(Get(article.url, << >>))
             normalized_url == normalize_url(url)
         IN IF url = << >>
            THEN UrlLoop(Tail(rest), seen_urls, Append(unique_articles, article))
            ELSE IF normalized_url \notin seen_urls
            THEN UrlLoop(Tail(rest), seen_urls \cup {normalized_url},
                         Append(unique_articles, article))
            ELSE UrlLoop(Tail(rest), seen_urls, unique_articles)

\* a first step that removes nothing
KeepEveryUrl(articles) == articles

remove_url_duplicates(articles) == UrlLoop(articles, {}, << >>)

(***************************************************************************)
(* Step 2: remove_title_duplicates (similarity above 0.9 with a title      *)
(* accepted earlier).                                                      *)
(***************************************************************************)
TitleThreshold == [num |-> 9, den |-> 10]

RECURSIVE TitleLoop(_, _, _)
TitleLoop(rest, processed_titles, unique_articles) ==
    IF rest = << >> THEN unique_articles
    ELSE LET article == Head(rest)
             title == Strip(Get(article.title, << >>))
             normalized_title == normalize_title(title)
             is_duplicate ==
                 \E k \in 1..Len(processed_titles) :
                     Exceeds(calculate_text_similarity(normalized_title,
                                                       processed_titles[k]),
                             TitleThreshold.num, TitleThreshold.den)
         IN IF title = << >>
            THEN TitleLoop(Tail(rest), processed_titles, Append(unique_articles, article))
            ELSE IF ~is_duplicate
            THEN TitleLoop(Tail(rest), Append(processed_titles, normalized_title),
                           Append(unique_articles, article))
            ELSE TitleLoop(Tail(rest), processed_titles, unique_articles)

remove_title_duplicates(articles) == TitleLoop(articles, << >>, << >>)

(***************************************************************************)
(* Step 3: remove_content_duplicates.                                      *)
(***************************************************************************)
similarity_threshold == [num |-> 17, den |-> 20]

\* 0.6 * title similarity + 0.4 * content similarity, as an exact fraction.
Weighted(title_sim, content_sim) ==
    [num |-> 6 * title_sim.num * content_sim.den + 4 * content_sim.num * title_sim.den,
     den |-> 10 * title_sim.den * content_sim.den]

calculate_content_similarity(article1, article2) ==
    IF Get(article1.content_excerpt, << >>) = << >>
       \/ Get(article2.content_excerpt, << >>) = << >>
    THEN Zero
    ELSE Weighted(calculate_text_similarity(normalize_title(Get(article1.title, << >>)),
                                            normalize_title(Get(article2.title, << >>))),
                  calculate_text_similarity(Get(article1.content_excerpt, << >>),
                                            Get(article2.content_excerpt, << >>)))

\* should_replace_article without a preference between source types
FlatPriority(source_type) == 0

source_priority(source_type) ==
    CASE source_type = "rss" -> 3
      [] source_type = "gmail_newsletter" -> 2
      [] source_type = "twitter" -> 1
      [] OTHER -> 0

SignificantLength == 100

Abs(n) == IF n < 0 THEN -n ELSE n

\* the relevance scores alone
ScoreDecides(new_article, existing_article) ==
    new_article.relevance_score > existing_article.relevance_score

should_replace_article(new_article, existing_article) ==
    LET new_score == IF new_article.relevance_score = NoScore
                     THEN 0 ELSE new_article.relevance_score
        existing_score == IF existing_article.relevance_score = NoScore
                          THEN 0 ELSE existing_article.relevance_score
        new_length == Len(Get(new_article.content_excerpt, << >>))
        existing_length == Len(Get(existing_article.content_excerpt, << >>))
        new_priority == source_priority(GetType(new_article))
        existing_priority == source_priority(GetType(existing_article))
        new_date == new_article.published_at
        existing_date == existing_article.published_at
    IN IF new_score # existing_score THEN new_score > existing_score
       ELSE IF Abs(new_length - existing_length) > SignificantLength
       THEN new_length > existing_length
       ELSE IF new_priority # existing_priority THEN new_priority > existing_priority
       ELSE IF new_date # NoDate /\ existing_date # NoDate THEN new_date > existing_date
       ELSE FALSE

\* list.index(x): the first position holding a dict equal to x.
IndexOf(list, x) == CHOOSE k \in 1..Len(list) :
                        /\ SameValue(list[k], x)
                        /\ \A j \in 1..(k - 1) : ~SameValue(list[j], x)

\* for i, art in enumerate(unique_articles): if art is old: unique_articles[i] = new; break
ReplaceIdentical(list, old, new) ==
    IF \E i \in 1..Len(list) : list[i].id = old.id
    THEN LET i == CHOOSE i \in 1..Len(list) :
                     /\ list[i].id = old.id
                     /\ \A j \in 1..(i - 1) : list[j].id # old.id
         IN [list EXCEPT ![i] = new]
    ELSE list

IsSimilar(current_article, processed_article) ==
    Exceeds(calculate_content_similarity(current_article, processed_article),
            similarity_threshold.num, similarity_threshold.den)

\* The first processed article similar to the current one, 0 when there is none
\* (the inner loop breaks at the first).
FirstSimilar(processed_articles, current_article) ==
    IF \E k \in 1..Len(processed_articles) :
           IsSimilar(current_article, processed_articles[k])
    THEN CHOOSE k \in 1..Len(processed_articles) :
           /\ IsSimilar(current_article, processed_articles[k])
           /\ \A j \in 1..(k - 1) : ~IsSimilar(current_article, processed_articles[j])
    ELSE 0

\* if self.should_replace_article(current_article, processed_article): ...
\* The replacing article's hash is not added to content_hashes.
ReplaceSimilar(st, current_article, processed_article) ==
    IF should_replace_article(current_article, processed_article)
    THEN [st EXCEPT
            !.processed_articles =
                [@ EXCEPT ![IndexOf(@, processed_article)] = current_article],
            !.unique_articles = ReplaceIdentical(@, processed_article, current_article)]
    ELSE st

HashedStep(st, current_article, content_hash, first) ==
    IF content_hash \in st.content_hashes THEN st
    ELSE IF first # 0
    THEN ReplaceSimilar(st, current_article, st.processed_articles[first])
    ELSE [unique_articles |-> Append(st.unique_articles, current_article),
          content_hashes |-> st.content_hashes \cup {content_hash},
          processed_articles |-> Append(st.processed_articles, current_article)]

\* One iteration of the loop over articles; st holds the three collections.
ContentStep(st, current_article) ==
    IF Strip(Get(current_article.content_excerpt, << >>)) = << >>
    THEN [st EXCEPT !.unique_articles = Append(@, current_article)]
    ELSE HashedStep(st, current_article,
                    calculate_content_hash(
                        Strip(Get(current_article.content_excerpt, << >>))),
                    FirstSimilar(st.processed_articles, current_article))

RECURSIVE ContentLoop(_, _)
ContentLoop(rest, st) ==
    IF rest = << >> THEN st
    ELSE ContentLoop(Tail(rest), ContentStep(st, Head(rest)))

remove_content_duplicates(articles) ==
    IF Len(articles) <= 1 THEN articles
    ELSE ContentLoop(articles,
                     [unique_articles |-> << >>, content_hashes |-> {},
                      processed_articles |-> << >>]).unique_articles

(***************************************************************************)
(* Step 4: handle_cross_source_duplicates.                                 *)
(***************************************************************************)
Today == 20

high_quality_sources ==
    { <<"h", "a", "r", "v", "a", "r", "d", " ", "b", "u", "s", "i", "n", "e", "s", "s",
        " ", "r", "e", "v", "i", "e", "w">>,
      <<"m", "i", "t", " ", "t", "e", "c", "h", "n", "o", "l", "o", "g", "y", " ",
        "r", "e", "v", "i", "e", "w">>,
      <<"v", "e", "n", "t", "u", "r", "e", "b", "e", "a", "t">>,
      <<"t", "e", "c", "h", "c", "r", "u", "n", "c", "h">>,
      <<"t", "h", "e", " ", "r", "e", "g", "i", "s", "t", "e", "r">> }

\* sub in s
Contains(s, sub) ==
    \E i \in 1..(Len(s) - Len(sub) + 1) : Slice(s, i, i + Len(sub) - 1) = sub

\* The score times ten, so that relevance_score * 0.4 stays an integer.
calculate_article_quality_score(article) ==
    LET relevance_score == IF article.relevance_score = NoScore
                           THEN 50 ELSE article.relevance_score
        content_length == Len(Get(article.content_excerpt, << >>))
        length_bonus == IF content_length > 500 THEN 20
                        ELSE IF content_length > 200 THEN 10
                        ELSE IF content_length > 100 THEN 5
                        ELSE 0
        source_type == GetType(article)
        type_bonus == CASE source_type = "rss" -> 15
                        [] source_type = "gmail_newsletter" -> 10
                        [] source_type = "twitter" -> 5
                        [] OTHER -> 0
        source_name == Lower(Get(article.source_name, << >>))
        name_bonus == IF \E q \in high_quality_sources : Contains(source_name, q)
                      THEN 15 ELSE 0
        age_days == Today - article.published_at
        recency_bonus == IF article.published_at = NoDate THEN 0
                         ELSE IF age_days <= 1 THEN 10
                         ELSE IF age_days <= 3 THEN 5
                         ELSE 0
    IN relevance_score * 4
       + 10 * (length_bonus + type_bonus + name_bonus + recency_bonus)

TagLimit == 20

RECURSIVE LongestContent(_, _, _)
\* The second loop of merge_article_information: adopt every content that is
\* more than 1.5 times as long as the longest so far.
LongestContent(rest, best_article, content) ==
    IF rest = << >> THEN content
    ELSE LET article == Head(rest)
             candidate == Get(article.content_excerpt, << >>)
         IN IF article.id # best_article.id /\ 2 * Len(candidate) > 3 * Len(content)
            THEN LongestContent(Tail(rest), best_article, candidate)
            ELSE LongestContent(Tail(rest), best_article, content)

merge_article_information(best_article, all_articles) ==
    LET all_tags == best_article.tags \cup
                    UNION {all_articles[k].tags : k \in 1..Len(all_articles)}
        \* list(all_tags)[:20]: which twenty of more than twenty is not specified
        tags == IF Cardinality(all_tags) <= TagLimit THEN all_tags
                ELSE CHOOSE t \in SUBSET all_tags : Cardinality(t) = TagLimit
        longest == LongestContent(all_articles, best_article,
                                  Get(best_article.content_excerpt, << >>))
    IN IF longest = Get(best_article.content_excerpt, << >>)
       THEN [best_article EXCEPT !.tags = tags]
       ELSE [best_article EXCEPT !.tags = tags, !.content_excerpt = longest]

\* a selection that clears the tags of the article it returns
FirstWithoutTags(articles) == [articles[1] EXCEPT !.tags = {}]

\* sort(key=score, reverse=True) is stable: the first of the top-scoring ones.
\* the first of the group, whatever the scores
FirstOfGroup(articles) == merge_article_information(articles[1], articles)

select_best_from_group(articles) ==
    IF Len(articles) = 1 THEN articles[1]
    ELSE LET best == CHOOSE k \in 1..Len(articles) :
                 /\ \A j \in 1..Len(articles) :
                        calculate_article_quality_score(articles[k])
                            >= calculate_article_quality_score(articles[j])
                 /\ \A j \in 1..(k - 1) :
                        calculate_article_quality_score(articles[j])
                            < calculate_article_quality_score(articles[k])
         IN merge_article_information(articles[best], articles)

title_key_of(article) ==
    create_title_key(normalize_title(Get(article.title, << >>)))

\* The groups in the order their keys are first met (dict insertion order).
RECURSIVE GroupLoop(_, _)
GroupLoop(articles, k) ==
    IF k > Len(articles) THEN << >>
    ELSE LET key == title_key_of(articles[k])
             isFirst == \A j \in 1..(k - 1) : title_key_of(articles[j]) # key
             SameKey(a) == title_key_of(a) = key
             group == SelectSeq(articles, SameKey)
         IN (IF isFirst THEN <<select_best_from_group(group)>> ELSE << >>)
            \o GroupLoop(articles, k + 1)

\* a last step that returns every article twice
EveryArticleTwice(articles) == articles \o articles

handle_cross_source_duplicates(articles) ==
    IF Len(articles) <= 1 THEN articles ELSE GroupLoop(articles, 1)

(***************************************************************************)
(* remove_duplicates: the four steps, each on the output of the previous.  *)
(***************************************************************************)
EmptyRun ==
    [unique_by_url |-> << >>, unique_by_title |-> << >>,
     unique_by_content |-> << >>, final_unique |-> << >>]

\* The four locals of remove_duplicates.
AfterContent(unique_by_url, unique_by_title, unique_by_content) ==
    [unique_by_url |-> unique_by_url, unique_by_title |-> unique_by_title,
     unique_by_content |-> unique_by_content,
     final_unique |-> handle_cross_source_duplicates(unique_by_content)]

AfterTitle(unique_by_url, unique_by_title) ==
    AfterContent(unique_by_url, unique_by_title,
                 remove_content_duplicates(unique_by_title))

AfterUrl(unique_by_url) == AfterTitle(unique_by_url, remove_title_duplicates(unique_by_url))

remove_duplicates_steps(articles) ==
    IF articles = << >> THEN EmptyRun ELSE AfterUrl(remove_url_duplicates(articles))

remove_duplicates(articles) == remove_duplicates_steps(articles).final_unique

(***************************************************************************)
(* The exceptions of remove_duplicates.  None stands for the value None of *)
(* url, title or content_excerpt; published_at can also be a string        *)
(* (TextDate) or a timezone-aware datetime (AwareDate).                    *)
(***************************************************************************)
None == <<"<none>">>

TextDate == -1

AwareDate == -2

\* article.get('url', '').strip(): AttributeError when the value is None
UrlStepRaises(articles) == \E k \in 1..Len(articles) : articles[k].url = None

\* article.get('title', '').strip()
TitleStepRaises(articles) == \E k \in 1..Len(articles) : articles[k].title = None

DateForm(published_at) ==
    IF published_at = TextDate THEN "str"
    ELSE IF published_at = AwareDate THEN "aware"
    ELSE "naive"

\* new_date > existing_date: TypeError between a string and a datetime and
\* between a naive and an aware datetime
ShouldReplaceRaises(new_article, existing_article) ==
    /\ new_article.published_at # NoDate
    /\ existing_article.published_at # NoDate
    /\ DateForm(new_article.published_at) # DateForm(existing_article.published_at)
    /\ new_article.relevance_score = existing_article.relevance_score
    /\ Abs(Len(Get(new_article.content_excerpt, << >>))
             - Len(Get(existing_article.content_excerpt, << >>))) <= SignificantLength
    /\ source_priority(GetType(new_article)) = source_priority(GetType(existing_article))

\* One iteration of the loop of remove_content_duplicates raises: at
\* .strip() of a None content, or in should_replace_article.
ContentStepRaises(st, current_article) ==
    \/ current_article.content_excerpt = None
    \/ /\ Strip(Get(current_article.content_excerpt, << >>)) # << >>
       /\ calculate_content_hash(Strip(Get(current_article.content_excerpt, << >>)))
              \notin st.content_hashes
       /\ FirstSimilar(st.processed_articles, current_article) # 0
       /\ ShouldReplaceRaises(
              current_article,
              st.processed_articles[FirstSimilar(st.processed_articles, current_article)])

RECURSIVE ContentLoopRaises(_, _)
ContentLoopRaises(rest, st) ==
    IF rest = << >> THEN FALSE
    ELSE \/ ContentStepRaises(st, Head(rest))
         \/ ContentLoopRaises(Tail(rest), ContentStep(st, Head(rest)))

\* should_replace_article can raise only on a date that is no naive datetime
ContentRaises(articles) ==
    /\ Len(articles) > 1
    /\ \/ \E k \in 1..Len(articles) : articles[k].content_excerpt = None
       \/ /\ \E k \in 1..Len(articles) : DateForm(articles[k].published_at) # "naive"
          /\ ContentLoopRaises(articles,
                               [unique_articles |-> << >>, content_hashes |-> {},
                                processed_articles |-> << >>])

\* calculate_article_quality_score: len(None), datetime.now() - published_at
ScoreRaises(article) ==
    \/ article.content_excerpt = None
    \/ DateForm(article.published_at) # "naive"

\* a group of two or more is scored
CrossSourceRaises(articles) ==
    /\ Len(articles) > 1
    /\ \E k \in 1..Len(articles) :
           /\ ScoreRaises(articles[k])
           /\ \E j \in 1..Len(articles) :
                  j # k /\ title_key_of(articles[j]) = title_key_of(articles[k])

\* remove_duplicates raises; run holds the lists of the steps that were reached
RemoveDuplicatesRaises(articles, run) ==
    /\ articles # << >>
    /\ \/ UrlStepRaises(articles)
       \/ TitleStepRaises(run.unique_by_url)
       \/ ContentRaises(run.unique_by_title)
       \/ CrossSourceRaises(run.unique_by_content)

(***************************************************************************)
(* The articles the deduplicator is run on: stories that are duplicates of *)
(* one another by URL, by title, by content and by title key, each from a  *)
(* feed and from a social source.                                          *)
(***************************************************************************)
MaxArticles == 3

UrlA == <<"h", "t", "t", "p", ":", "/", "/", "x", ".", "c", "o", "m", "/", "a">>

UrlAQuery ==
    <<"h", "t", "t", "p", ":", "/", "/", "w", "w", "w", ".", "x", ".", "c",
      "o", "m", "/", "a", "?", "u", "=", "1">>

UrlB == <<"h", "t", "t", "p", ":", "/", "/", "y", ".", "c", "o", "m", "/", "b">>

UrlC == <<"h", "t", "t", "p", ":", "/", "/", "z", ".", "c", "o", "m", "/", "c">>

TitleChip == <<"N", "e", "w", " ", "c", "h", "i", "p">>

TitleChips == <<"n", "e", "w", " ", "c", "h", "i", "p", "s">>

TitleAiChip == <<"n", "e", "w", " ", "a", "i", " ", "c", "h", "i", "p">>

TitleGpu == <<"g", "p", "u", " ", "n", "e", "w", "s">>

ContentBeta == <<"a", "l", "p", "h", "a", " ", "b", "e", "t", "a">>

ContentBets == <<"a", "l", "p", "h", "a", " ", "b", "e", "t", "s">>

ContentRays == <<"g", "a", "m", "m", "a", " ", "r", "a", "y", "s">>

NameFeed == <<"w", "i", "r", "e">>

NameSocial == <<"@", "t", "c">>

NameTrusted == <<"@", "T", "e", "c", "h", "C", "r", "u", "n", "c", "h">>

StoryChip == [url |-> UrlA, title |-> TitleChip, content_excerpt |-> ContentBeta]

\* The same URL as StoryChip up to "www." and the query string.
StoryChipByUrl ==
    [url |-> UrlAQuery, title |-> TitleAiChip, content_excerpt |-> ContentBets]

\* A title above 0.9 similar to StoryChip's.
StoryChipByTitle == [url |-> UrlB, title |-> TitleChips, content_excerpt |-> ContentRays]

\* Title and content together above the threshold with StoryChip's.
StoryChipByContent ==
    [url |-> << >>, title |-> TitleAiChip, content_excerpt |-> ContentBets]

\* The title key of StoryChip, and nothing else in common.
StoryChipByKey == [url |-> << >>, title |-> TitleAiChip, content_excerpt |-> ContentRays]

\* Another story, with the very content of StoryChipByContent.
StoryGpu == [url |-> UrlC, title |-> TitleGpu, content_excerpt |-> ContentBets]

Stories ==
    {StoryChip, StoryChipByUrl, StoryChipByTitle, StoryChipByContent, StoryChipByKey,
     StoryGpu}

Article(story, source_type, source_name, relevance_score, published_at) ==
    [id |-> 0, url |-> story.url, title |-> story.title,
     content_excerpt |-> story.content_excerpt,
     source_type |-> source_type, source_name |-> source_name,
     relevance_score |-> relevance_score, published_at |-> published_at,
     tags |-> {source_type},
     published_date |-> [kind |-> "missing", day |-> 0],
     scraped_at |-> [kind |-> "missing", day |-> 0]]

ArticlePool ==
    {Article(s, "twitter", NameSocial, 50, NoDate) : s \in Stories}
    \cup {Article(StoryChip, "rss", NameFeed, 50, NoDate),
          Article(StoryGpu, "rss", NameFeed, 50, NoDate),
          Article(StoryChipByContent, "rss", NameFeed, 85, NoDate),
          Article(StoryChipByKey, "twitter", NameTrusted, 50, Today)}

\* A list of dict objects: the k-th has identity k.
WithIds(list) == [k \in 1..Len(list) |-> [list[k] EXCEPT !.id = k]]

\* Articles with missing keys, None values and dates that are no naive
\* datetime, next to one that is well formed.
Dated == Article(StoryChip, "rss", NameFeed, 50, Today)

NoneUrl == [Article(StoryGpu, "rss", NameFeed, 50, NoDate) EXCEPT !.url = None]

NoneTitle == [Article(StoryGpu, "rss", NameFeed, 50, NoDate) EXCEPT !.title = None]

NoneContent ==
    [Article(StoryGpu, "rss", NameFeed, 50, NoDate) EXCEPT !.content_excerpt = None]

EmptyDict ==
    [Article([url |-> Missing, title |-> Missing, content_excerpt |-> Missing],
             MissingType, Missing, NoScore, NoDate) EXCEPT !.tags = {}]

\* a near-duplicate of Dated by content, its date a string
TextDated == Article(StoryChipByContent, "rss", NameFeed, 50, TextDate)

\* the title key of Dated, its date timezone-aware
AwareDated == Article(StoryChipByKey, "twitter", NameSocial, 50, AwareDate)

MalformedPool == {Dated, NoneUrl, NoneTitle, NoneContent, EmptyDict, TextDated, AwareDated}


(***************************************************************************)
(* MultiStageDigestProcessor.                                              *)
(*                                                                         *)
(* A timestamp field (published_date, scraped_at) is a record [kind, day]: *)
(*   "missing"  the dict has no such key        "none"   the value is None *)
(*   "naive"    a datetime without a timezone   "aware"  one with timezone *)
(*   "iso"      an ISO string without an offset "isoz"   one ending in 'Z' *)
(*   "bad"      a string fromisoformat rejects                             *)
(* A function that can raise returns [raised |-> TRUE] or                  *)
(* [raised |-> FALSE, value |-> v].                                        *)
(***************************************************************************)
NoStamp == [kind |-> "missing", day |-> 0]

Naive(day) == [kind |-> "naive", day |-> day]

Raised == [raised |-> TRUE]

Returned(v) == [raised |-> FALSE, value |-> v]

\* datetime.fromisoformat(s.replace('Z', '+00:00')) or the datetime itself:
\* the key's timezone awareness (tz) and its time (t).
AsDatetime(stamp) ==
    [tz |-> IF stamp.kind \in {"naive", "iso"} THEN "naive" ELSE "aware", t |-> stamp.day]

\* get_sort_key; now is the value of datetime.now() at this call.
get_sort_key(article, now) ==
    LET pub_date == article.published_date
        scraped == article.scraped_at
        current == [tz |-> "naive", t |-> now]
    IN IF pub_date.kind \in {"naive", "aware", "iso", "isoz"} THEN AsDatetime(pub_date)
       ELSE IF scraped.kind = "missing" THEN current
       ELSE IF scraped.kind = "none" THEN [tz |-> "none", t |-> 0]
       ELSE IF scraped.kind = "bad" THEN current
       ELSE AsDatetime(scraped)

\* datetime's < raises TypeError between a naive and an aware value, and so
\* does < with None.
Comparable(k1, k2) == k1.tz = k2.tz /\ k1.tz # "none"

\* a source's articles left in input order
Unsorted(entries) == entries

\* list.sort(key=..., reverse=True) on a list of [article, key]: descending and
\* stable, so an entry's place is after every entry with a greater key and
\* after the earlier entries with an equal key.
Rank(entries, k) ==
    1 + Cardinality({j \in 1..Len(entries) :
                        \/ entries[j].key.t > entries[k].key.t
                        \/ entries[j].key.t = entries[k].key.t /\ j < k})

SortDescending(entries) ==
    [p \in 1..Len(entries) |->
        entries[CHOOSE k \in 1..Len(entries) : Rank(entries, k) = p]]

\* The keys of one source's articles; with clock_ticks every call of
\* datetime.now() returns a later time than the call before, without it the
\* calls fall into one clock reading.
SourceEntries(source_articles, clock_ticks) ==
    [k \in 1..Len(source_articles) |->
        [article |-> source_articles[k],
         key |-> get_sort_key(source_articles[k],
                              Today + (IF clock_ticks THEN k ELSE 0))]]

SortRaises(entries) ==
    /\ Len(entries) >= 2
    /\ \E i, j \in 1..Len(entries) : i # j /\ ~Comparable(entries[i].key, entries[j].key)

MinimumPerSource == 2

Max(a, b) == IF a >= b THEN a ELSE b

Take(list, n) == Slice(list, 1, IF Len(list) < n THEN Len(list) ELSE n)

\* by_source, in the order the sources are first met (dict insertion order).
SourceOrder(fresh_articles) ==
    LET IsFirst(k) == \A j \in 1..(k - 1) :
                          fresh_articles[j].source_name # fresh_articles[k].source_name
        firsts == SelectSeq([k \in 1..Len(fresh_articles) |-> k], IsFirst)
    IN [i \in 1..Len(firsts) |-> fresh_articles[firsts[i]].source_name]

max_per_source_of(fresh_articles) ==
    LET by_source == SourceOrder(fresh_articles)
    IN IF Len(by_source) > 0
       THEN Max(MinimumPerSource, Len(fresh_articles) \div Len(by_source))
       ELSE Len(fresh_articles)

\* source_articles.sort(...); selected_from_source = source_articles[:max_per_source]
SelectedFromSource(fresh_articles, source_name, max_per_source, clock_ticks) ==
    LET FromSource(a) == a.source_name = source_name
        ordered == SortDescending(
                       SourceEntries(SelectSeq(fresh_articles, FromSource), clock_ticks))
    IN Take([k \in 1..Len(ordered) |-> ordered[k].article], max_per_source)

RECURSIVE DiverseLoop(_, _, _, _)
DiverseLoop(sources, fresh_articles, max_per_source, clock_ticks) ==
    IF sources = << >> THEN << >>
    ELSE SelectedFromSource(fresh_articles, Head(sources), max_per_source, clock_ticks)
         \o DiverseLoop(Tail(sources), fresh_articles, max_per_source, clock_ticks)

\* the filter without the freshness step
KeepAll(articles, recently_selected) == articles

FreshArticles(articles, recently_selected) ==
    LET IsFresh(a) == a.url \notin recently_selected
    IN SelectSeq(articles, IsFresh)

_apply_diversity_filtering(articles, recently_selected, clock_ticks) ==
    LET fresh_articles == FreshArticles(articles, recently_selected)
        by_source == SourceOrder(fresh_articles)
        FromSource(name) == LET Is(a) == a.source_name = name
                            IN SelectSeq(fresh_articles, Is)
    IN IF \E k \in 1..Len(articles) : articles[k].url = Missing
       THEN Raised   \* a['url']: KeyError
       ELSE IF \E k \in 1..Len(fresh_articles) : fresh_articles[k].source_name = Missing
       THEN Raised   \* article['source_name']: KeyError
       ELSE IF \E i \in 1..Len(by_source) :
                   SortRaises(SourceEntries(FromSource(by_source[i]), clock_ticks))
       THEN Raised   \* sort: TypeError
       ELSE Returned(DiverseLoop(by_source, fresh_articles,
                                 max_per_source_of(fresh_articles), clock_ticks))

(***************************************************************************)
(* The oracle (the chat completion) and its replies.                       *)
(*   kind "raise"    the call raises                                       *)
(*   kind "garbage"  the content is not JSON                               *)
(*   kind "no_<key>" the JSON object lacks that key                        *)
(*   kind "json"     a JSON object with the keys the stage reads           *)
(* An element of selected_indices is [t, v]: the integer v (t = "int"),    *)
(* the float v + 0.5 (t = "float") or a string (t = "str").                *)
(***************************************************************************)
Int_(v) == [t |-> "int", v |-> v]

Float_(v) == [t |-> "float", v |-> v]

Str_ == [t |-> "str", v |-> 0]

\* article['title'], article['source_name'], article['source_type'], article['url']
\* in _prepare_article_summary and in stage 2's detailed summaries: KeyError.
SummaryRaises(article) ==
    \/ article.title = Missing
    \/ article.source_name = Missing
    \/ article.source_type = MissingType
    \/ article.url = Missing

batch_size == 50

FallbackCount == 10

ShortlistLimit == 20

Min(a, b) == IF a <= b THEN a ELSE b

\* a batch whose failure selects the whole batch
WholeBatchOnFailure(reply, start, batch_length) ==
    IF reply.kind # "json" \/ \E k \in 1..Len(reply.selected_indices) :
                                  reply.selected_indices[k].t = "str"
    THEN [k \in 1..batch_length |-> Int_(start + k - 1)]
    ELSE [k \in 1..Len(reply.selected_indices) |->
             [reply.selected_indices[k] EXCEPT !.v = @ + start]]

\* a batch whose failure contributes nothing
NothingOnFailure(reply, start, batch_length) ==
    IF reply.kind # "json" \/ \E k \in 1..Len(reply.selected_indices) :
                                  reply.selected_indices[k].t = "str"
    THEN << >>
    ELSE [k \in 1..Len(reply.selected_indices) |->
             [reply.selected_indices[k] EXCEPT !.v = @ + start]]

\* The body of the try block of one batch, and its except branch: what the
\* batch appends to selected_indices.
BatchSelected(reply, start, batch_length) ==
    LET fallback_count == Min(FallbackCount, batch_length)
        fallback == [k \in 1..fallback_count |-> Int_(start + k - 1)]
        indices == reply.selected_indices
    IN IF reply.kind # "json" THEN fallback
       ELSE IF \E k \in 1..Len(indices) : indices[k].t = "str"
       THEN fallback   \* idx + batch_start: TypeError
       ELSE [k \in 1..Len(indices) |-> [indices[k] EXCEPT !.v = @ + start]]

\* 0 <= i < len(diverse_articles) (a float v + 0.5 lies in range exactly when v does)
ValidIndices(selected, n) ==
    LET InRange(i) == 0 <= i.v /\ i.v < n
    IN SelectSeq(selected, InRange)

\* an end of the stage that looks up every valid index
UncutShortlist(diverse, selected) ==
    LET final_selected == ValidIndices(selected, Len(diverse))
    IN IF \E k \in 1..Len(final_selected) : final_selected[k].t # "int"
       THEN Raised
       ELSE Returned([k \in 1..Len(final_selected) |-> diverse[final_selected[k].v + 1]])

\* The end of stage_1_filtering: the first twenty valid indices, looked up.
Shortlist(diverse, selected) ==
    LET final_selected == Take(ValidIndices(selected, Len(diverse)), ShortlistLimit)
    IN IF \E k \in 1..Len(final_selected) : final_selected[k].t # "int"
       THEN Raised   \* list indices must be integers: TypeError
       ELSE Returned([k \in 1..Len(final_selected) |-> diverse[final_selected[k].v + 1]])

FinalFallbackCount == 5

FallbackInsight == "Fallback mode - manual review needed"

\* filtered_articles[i]: a negative i counts from the end.
Lookup(list, i) == IF i >= 0 THEN list[i + 1] ELSE list[Len(list) + i + 1]

\* a final fallback that forgets the cut to five
UncutFallback(filtered_articles) ==
    [selected_articles |-> filtered_articles,
     digest_text |-> "fallback mode",
     key_insights |-> <<FallbackInsight>>,
     article_summaries |-> << >>]

\* The except branch of stage_2_final_selection.
FinalFallback(filtered_articles) ==
    [selected_articles |-> Take(filtered_articles, FinalFallbackCount),
     digest_text |-> "fallback mode",
     key_insights |-> <<FallbackInsight>>,
     article_summaries |-> << >>]

stage_2_final_selection(filtered_articles, reply) ==
    LET fallback == FinalFallback(filtered_articles)
        indices == reply.selected_indices
        n == Len(filtered_articles)
        Usable(i) == i.t = "int" /\ -n <= i.v /\ i.v < n
        selected_articles == [k \in 1..Len(indices) |-> Lookup(filtered_articles, indices[k].v)]
        enhanced == [k \in 1..Min(reply.article_summaries, Len(indices)) |->
                        [source |-> <<selected_articles[k].source_name,
                                      selected_articles[k].source_type>>,
                         url |-> selected_articles[k].url]]
    IN IF \E k \in 1..n : SummaryRaises(filtered_articles[k]) THEN Raised
       ELSE IF reply.kind # "json" THEN Returned(fallback)
       ELSE IF \E k \in 1..Len(indices) : ~Usable(indices[k])
       THEN Returned(fallback)   \* IndexError, TypeError
       ELSE Returned([selected_articles |-> selected_articles,
                      digest_text |-> "oracle summary",
                      key_insights |-> reply.key_insights,
                      article_summaries |-> enhanced])

\* an empty result that carries the fallback's insight
EmptyWithInsight ==
    [selected_articles |-> << >>, digest_text |-> "No articles available for digest",
     key_insights |-> <<FallbackInsight>>, total_processed |-> 0]

\* The dict create_daily_digest returns for an empty list, and the one it
\* returns after the two stages.
EmptyDigest ==
    [selected_articles |-> << >>, digest_text |-> "No articles available for digest",
     key_insights |-> << >>, total_processed |-> 0]

Digest(all, stage_1, final) ==
    [selected_articles |-> final.selected_articles,
     digest_text |-> final.digest_text,
     key_insights |-> final.key_insights,
     article_summaries |-> final.article_summaries,
     total_processed |-> Len(all),
     stage_1_count |-> Len(stage_1),
     final_count |-> Len(final.selected_articles)]

(***************************************************************************)
(* The inputs of the normalisers: URLs with and without a scheme, with     *)
(* repeated "www." labels, a path, a query and a fragment; titles with     *)
(* stacked editorial prefixes and source suffixes.                         *)
(***************************************************************************)
UrlSchemes == {<< >>, <<"h", "t", "t", "p", ":", "/", "/">>, <<"H", "T", "T", "P", ":", "/", "/">>}

UrlHost == <<"x", ".", "c", "o", "m">>

UrlPaths == {<< >>, <<"/">>, <<"/", "A">>, <<"/", "a", "/">>}

UrlQueries == {<< >>, <<"?", "u", "=", "1">>}

UrlFragments == {<< >>, <<"#", "f">>}

UrlInputs ==
    {sch \o Repeat(WwwDot, w) \o UrlHost \o pth \o q \o f :
        sch \in UrlSchemes, w \in 0..MaxWww, pth \in UrlPaths,
        q \in UrlQueries, f \in UrlFragments}

TitlePrefixes == {<<"B", "r", "e", "a", "k", "i", "n", "g", ":", " ">>, <<"n", "e", "w", "s", ":">>}

TitleCores == {TitleChip, <<"g", "p", "u", " ", " ", "n", "e", "w", "s", "!", "!">>}

TitleSuffix == <<" ", "|", " ", "t", "c">>

TitleInputs ==
    {Concat(pre) \o core \o Repeat(TitleSuffix, n) :
        pre \in UNION {[1..k -> TitlePrefixes] : k \in 0..MaxPrefixes},
        core \in TitleCores, n \in 0..MaxSuffixes}

(***************************************************************************)
(* The articles and the oracle replies the digest processor is run on.     *)
(***************************************************************************)
MaxFilterArticles == 4

MaxDigestArticles == 3

MaxPipelineArticles == 2

SingleBatchSize == 12

DoubleBatchSize == 60

UrlD == <<"h", "t", "t", "p", ":", "/", "/", "w", ".", "c", "o", "m", "/", "d">>

DigestArticle(url, source_name, source_type, published_date, scraped_at) ==
    [id |-> 0, url |-> url, title |-> TitleGpu, content_excerpt |-> ContentRays,
     source_type |-> source_type, source_name |-> source_name,
     relevance_score |-> 50, published_at |-> NoDate, tags |-> {},
     published_date |-> published_date, scraped_at |-> scraped_at]

WireOld == DigestArticle(UrlA, NameFeed, "rss", Naive(17), NoStamp)

WireNew == DigestArticle(UrlB, NameFeed, "rss", Naive(19), NoStamp)

\* published_date does not parse: the key is scraped_at
WireScraped ==
    DigestArticle(UrlC, NameFeed, "rss", [kind |-> "bad", day |-> 0], Naive(18))

\* neither timestamp: the key is datetime.now()
WireUndated == DigestArticle(UrlD, NameFeed, "rss", NoStamp, NoStamp)

\* an ISO string ending in 'Z': a timezone-aware key
WireAware == DigestArticle(UrlB, NameFeed, "rss", [kind |-> "isoz", day |-> 18], NoStamp)

Social == DigestArticle(UrlC, NameSocial, "twitter", [kind |-> "iso", day |-> 18], NoStamp)

\* an article without the url key
NoUrl == DigestArticle(Missing, NameFeed, "rss", Naive(18), NoStamp)

FilterPool == {WireOld, WireNew, WireScraped, WireUndated, WireAware, Social}

DigestPool == {WireOld, WireNew, WireAware, Social, NoUrl}

ListsOver(pool, n) == UNION {{WithIds(l) : l \in [1..k -> pool]} : k \in 0..n}

DigitChars == <<"0", "1", "2", "3", "4", "5", "6", "7", "8", "9">>

RECURSIVE NumberText(_)
NumberText(k) ==
    IF k < 10 THEN <<DigitChars[k + 1]>>
    ELSE NumberText(k \div 10) \o <<DigitChars[(k % 10) + 1]>>

\* n articles of one source and one date, the k-th with its own URL
LargeList(n) ==
    [k \in 1..n |->
        [DigestArticle(UrlA \o NumberText(k), NameFeed, "rss", Naive(18), NoStamp)
            EXCEPT !.id = k]]

RecentlySelectedChoices == {{}, {UrlA}}

FailureKinds == {"raise", "garbage", "no_selected_indices"}

ShortlistIndexLists ==
    { << >>, <<Int_(0)>>, <<Int_(1), Int_(0)>>, <<Int_(0), Int_(0)>>,
      <<Int_(-1), Int_(0)>>, <<Int_(batch_size + 5), Int_(0)>>,
      <<Int_(2), Int_(2 * batch_size)>>, <<Float_(0)>>, <<Str_, Int_(0)>>,
      \* every index of a batch of SingleBatchSize, and all of them again
      [k \in 1..(2 * SingleBatchSize) |-> Int_((k - 1) % SingleBatchSize)] }

ShortlistReplies ==
    {[kind |-> k] : k \in FailureKinds}
    \cup {[kind |-> "json", selected_indices |-> l] : l \in ShortlistIndexLists}

FinalIndexLists ==
    { << >>, <<Int_(0)>>, <<Int_(1), Int_(0)>>, <<Int_(-1)>>,
      <<Int_(0), Int_(ShortlistLimit)>>, <<Float_(0)>>, <<Int_(0), Str_>>,
      <<Int_(0), Int_(0)>>, <<Int_(0), Int_(1), Int_(0)>>,
      <<Int_(0), Int_(1), Int_(2), Int_(3), Int_(4), Int_(5)>> }

FinalReplies ==
    {[kind |-> k] : k \in FailureKinds \cup {"no_daily_summary", "no_key_insights"}}
    \cup {[kind |-> "json", selected_indices |-> l, key_insights |-> <<"insight">>,
           article_summaries |-> 1] : l \in FinalIndexLists}

NoReply == [kind |-> "none"]

(***************************************************************************)
(* State.                                                                  *)
(*   norm_kind, norm_input : which normaliser is run ("url", "title") and  *)
(*                           on what; norm_once, norm_twice its results;   *)
(*                           npc counts the runs                           *)
(*   articles  : the list handed to remove_duplicates                      *)
(*   firstRun  : the four locals of remove_duplicates(articles)            *)
(*   secondRun : the same for remove_duplicates(firstRun.final_unique)     *)
(*   dpc       : how many times remove_duplicates has run                  *)
(*   all_articles, recently_selected : the argument of create_daily_digest *)
(*                           and what _get_recently_selected_articles      *)
(*                           returns                                       *)
(*   now_ticks : whether datetime.now() advanced between the calls made    *)
(*                           while sorting                                 *)
(*   diverse_articles, batch_start, selected_indices, stage_1_articles :   *)
(*                           the locals of stage_1_filtering               *)
(*   shortlist_replies, final_reply : the oracle replies received          *)
(*   result    : what create_daily_digest returned                         *)
(*   phase     : where create_daily_digest stands                          *)
(***************************************************************************)
VARIABLES norm_kind, norm_input, norm_once, norm_twice, npc,
          articles, firstRun, secondRun, dpc,
          all_articles, recently_selected, now_ticks, diverse_articles, batch_start,
          selected_indices, shortlist_replies, stage_1_articles, final_reply,
          result, phase, history_read

normVars == <<norm_kind, norm_input, norm_once, norm_twice, npc>>

dedupVars == <<articles, firstRun, secondRun, dpc>>

digestVars ==
    <<all_articles, recently_selected, now_ticks, diverse_articles, batch_start,
      selected_indices, shortlist_replies, stage_1_articles, final_reply, result, phase,
      history_read>>

\* The state of the replacement policy, applied on its own: unique_articles and
\* processed_articles of remove_content_duplicates when a near-duplicate is
\* found, the article that was found to be one, and the two lists after the
\* policy was applied.
VARIABLES found, current_article, resolved, rpc

replaceVars == <<found, current_article, resolved, rpc>>

\* batch_evaluate_articles: the articles, what the API will answer for each,
\* the tasks made of them, the semaphore's value, the order in which the tasks
\* finished, and the loop over asyncio.as_completed.
VARIABLES eval_articles, api_answers, task_pc, semaphore, task_result,
          completion_order, evaluated_articles, awaited, epc

evalVars ==
    <<eval_articles, api_answers, task_pc, semaphore, task_result, completion_order,
      evaluated_articles, awaited, epc>>

\* PromptService and the ai_prompts table: the rows, the cache and its
\* timestamp, the clock, and the last call with what it returned.
VARIABLES ai_prompts, _cache, _cache_timestamp, prompt_clock, last_call

promptVars == <<ai_prompts, _cache, _cache_timestamp, prompt_clock, last_call>>

\* run_ai_digest_pipeline: its argument, what the collaborators will do, the
\* calls made so far, and the value returned.
VARIABLES target_date, existing_digest, total_count, selected_count, storage_up,
          calls, run_pc, run_returned

runVars ==
    <<target_date, existing_digest, total_count, selected_count, storage_up, calls,
      run_pc, run_returned>>

otherVars == <<replaceVars, evalVars, promptVars, runVars>>

vars == <<normVars, dedupVars, digestVars, otherVars>>

NormIdle ==
    /\ norm_kind = "none"
    /\ norm_input = << >>
    /\ norm_once = << >>
    /\ norm_twice = << >>
    /\ npc = "idle"

DedupIdle ==
    /\ articles = << >>
    /\ firstRun = EmptyRun
    /\ secondRun = EmptyRun
    /\ dpc = "idle"

DigestLocalsInit ==
    /\ now_ticks = FALSE
    /\ diverse_articles = << >>
    /\ batch_start = 0
    /\ selected_indices = << >>
    /\ shortlist_replies = << >>
    /\ stage_1_articles = << >>
    /\ final_reply = NoReply
    /\ result = EmptyDigest
    /\ history_read = FALSE

DigestIdle ==
    /\ all_articles = << >>
    /\ recently_selected = {}
    /\ DigestLocalsInit
    /\ phase = "idle"

NoCollections == [unique_articles |-> << >>, processed_articles |-> << >>]

ReplaceIdle ==
    /\ found = NoCollections
    /\ current_article = EmptyDict
    /\ resolved = NoCollections
    /\ rpc = "idle"

EvalIdle ==
    /\ eval_articles = << >>
    /\ api_answers = << >>
    /\ task_pc = << >>
    /\ semaphore = 0
    /\ task_result = << >>
    /\ completion_order = << >>
    /\ evaluated_articles = << >>
    /\ awaited = 0
    /\ epc = "idle"

PromptIdle ==
    /\ ai_prompts = << >>
    /\ _cache = {}
    /\ _cache_timestamp = [set |-> FALSE, at |-> 0]
    /\ prompt_clock = 0
    /\ last_call = [op |-> "none"]

RunIdle ==
    /\ target_date = [kind |-> "none"]
    /\ existing_digest = FALSE
    /\ total_count = 0
    /\ selected_count = 0
    /\ storage_up = FALSE
    /\ calls = << >>
    /\ run_pc = "idle"
    /\ run_returned = "none"

OthersIdle == ReplaceIdle /\ EvalIdle /\ PromptIdle /\ RunIdle

(***************************************************************************)
(* The normalisers, each run on an input and again on its own output.      *)
(***************************************************************************)
NormInit ==
    /\ \/ norm_kind = "url" /\ norm_input \in UrlInputs
       \/ norm_kind = "title" /\ norm_input \in TitleInputs
    /\ norm_once = << >>
    /\ norm_twice = << >>
    /\ npc = "input"
    /\ DedupIdle
    /\ DigestIdle
    /\ OthersIdle

NormalizeUrl ==
    /\ norm_kind = "url"
    /\ npc = "input"
    /\ norm_once' = normalize_url(norm_input)
    /\ npc' = "once"
    /\ UNCHANGED <<norm_kind, norm_input, norm_twice, dedupVars, digestVars, otherVars>>

NormalizeUrlAgain ==
    /\ norm_kind = "url"
    /\ npc = "once"
    /\ norm_twice' = normalize_url(norm_once)
    /\ npc' = "twice"
    /\ UNCHANGED <<norm_kind, norm_input, norm_once, dedupVars, digestVars, otherVars>>

NormalizeTitle ==
    /\ norm_kind = "title"
    /\ npc = "input"
    /\ norm_once' = normalize_title(norm_input)
    /\ npc' = "once"
    /\ UNCHANGED <<norm_kind, norm_input, norm_twice, dedupVars, digestVars, otherVars>>

NormalizeTitleAgain ==
    /\ norm_kind = "title"
    /\ npc = "once"
    /\ norm_twice' = normalize_title(norm_once)
    /\ npc' = "twice"
    /\ UNCHANGED <<norm_kind, norm_input, norm_once, dedupVars, digestVars, otherVars>>

NormNext == NormalizeUrl \/ NormalizeUrlAgain \/ NormalizeTitle \/ NormalizeTitleAgain

SpecNorm == NormInit /\ [][NormNext]_vars

(***************************************************************************)
(* remove_duplicates, run on a list and again on its own output.           *)
(***************************************************************************)
DedupInit ==
    /\ articles \in ListsOver(ArticlePool, MaxArticles)
    /\ firstRun = EmptyRun
    /\ secondRun = EmptyRun
    /\ dpc = "input"
    /\ NormIdle
    /\ DigestIdle
    /\ OthersIdle

RemoveDuplicates ==
    /\ dpc = "input"
    /\ \E run \in {remove_duplicates_steps(articles)} :
          IF RemoveDuplicatesRaises(articles, run)
          THEN dpc' = "raised" /\ UNCHANGED firstRun
          ELSE dpc' = "once" /\ firstRun' = run
    /\ UNCHANGED <<articles, secondRun, normVars, digestVars, otherVars>>

RemoveDuplicatesAgain ==
    /\ dpc = "once"
    /\ \E run \in {remove_duplicates_steps(firstRun.final_unique)} :
          IF RemoveDuplicatesRaises(firstRun.final_unique, run)
          THEN dpc' = "raised" /\ UNCHANGED secondRun
          ELSE dpc' = "twice" /\ secondRun' = run
    /\ UNCHANGED <<articles, firstRun, normVars, digestVars, otherVars>>

DedupNext == RemoveDuplicates \/ RemoveDuplicatesAgain

SpecDedup == DedupInit /\ [][DedupNext]_vars

(***************************************************************************)
(* remove_duplicates, run on lists that hold malformed articles.           *)
(***************************************************************************)
MalformedInit ==
    /\ articles \in ListsOver(MalformedPool, MaxArticles)
    /\ firstRun = EmptyRun
    /\ secondRun = EmptyRun
    /\ dpc = "input"
    /\ NormIdle
    /\ DigestIdle
    /\ OthersIdle

MalformedNext == RemoveDuplicates

SpecMalformed == MalformedInit /\ [][MalformedNext]_vars

(***************************************************************************)
(* _apply_diversity_filtering, run on a list and a recently-selected set.  *)
(***************************************************************************)
FilterInit ==
    /\ all_articles \in ListsOver(FilterPool, MaxFilterArticles)
    /\ recently_selected \in RecentlySelectedChoices
    /\ DigestLocalsInit
    /\ phase = "filter"
    /\ NormIdle
    /\ DedupIdle
    /\ OthersIdle

ApplyDiversityFiltering ==
    /\ phase = "filter"
    /\ \E clock_ticks \in BOOLEAN :
         \E out \in {_apply_diversity_filtering(all_articles, recently_selected,
                                                clock_ticks)} :
            /\ now_ticks' = clock_ticks
            /\ IF out.raised
               THEN phase' = "raised" /\ UNCHANGED diverse_articles
               ELSE phase' = "filtered" /\ diverse_articles' = out.value
    /\ UNCHANGED <<all_articles, recently_selected, batch_start, selected_indices,
                   shortlist_replies, stage_1_articles, final_reply, result,
                   history_read, normVars, dedupVars, otherVars>>

FilterNext == ApplyDiversityFiltering

SpecFilter == FilterInit /\ [][FilterNext]_vars

(***************************************************************************)
(* create_daily_digest.  It awaits the oracle once per batch of stage 1    *)
(* and once in stage 2; each reply is one step.                            *)
(***************************************************************************)
DigestInit ==
    /\ all_articles \in ListsOver(DigestPool, MaxDigestArticles)
                          \cup {LargeList(SingleBatchSize), LargeList(DoubleBatchSize)}
    /\ recently_selected \in RecentlySelectedChoices
    /\ DigestLocalsInit
    /\ phase = "start"
    /\ NormIdle
    /\ DedupIdle
    /\ OthersIdle

\* create_daily_digest up to the first oracle call: the empty list returns at
\* once; otherwise stage_1_filtering filters and writes the summaries.
StartDigest ==
    /\ phase = "start"
    /\ IF all_articles = << >>
       THEN /\ result' = EmptyDigest
            /\ phase' = "returned"
            /\ UNCHANGED <<now_ticks, diverse_articles, history_read>>
       ELSE \E clock_ticks \in BOOLEAN :
              \E out \in {_apply_diversity_filtering(all_articles, recently_selected,
                                                     clock_ticks)} :
                 /\ history_read' = TRUE
                 /\ now_ticks' = clock_ticks
                 /\ UNCHANGED result
                 /\ IF out.raised
                    THEN phase' = "raised" /\ UNCHANGED diverse_articles
                    ELSE IF out.value = << >>
                    THEN phase' = "stage2" /\ UNCHANGED diverse_articles
                    ELSE IF \E k \in 1..Len(out.value) : SummaryRaises(out.value[k])
                    THEN phase' = "raised" /\ UNCHANGED diverse_articles
                    ELSE phase' = "batches" /\ diverse_articles' = out.value
    /\ UNCHANGED <<all_articles, recently_selected, batch_start, selected_indices,
                   shortlist_replies, stage_1_articles, final_reply,
                   normVars, dedupVars, otherVars>>

\* One pass of the loop over batches, with the oracle's reply to the batch;
\* after the last batch, the rest of stage_1_filtering.
ShortlistReply ==
    /\ phase = "batches"
    /\ \E reply \in ShortlistReplies :
         \E selected \in {selected_indices
                          \o BatchSelected(reply, batch_start,
                                           Min(batch_size,
                                               Len(diverse_articles) - batch_start))} :
            /\ shortlist_replies' = Append(shortlist_replies, reply)
            /\ selected_indices' = selected
            /\ batch_start' = batch_start + batch_size
            /\ IF batch_start + batch_size < Len(diverse_articles)
               THEN UNCHANGED <<stage_1_articles, phase>>
               ELSE \E out \in {Shortlist(diverse_articles, selected)} :
                      IF out.raised
                      THEN phase' = "raised" /\ UNCHANGED stage_1_articles
                      ELSE phase' = "stage2" /\ stage_1_articles' = out.value
    /\ UNCHANGED <<all_articles, recently_selected, now_ticks, diverse_articles,
                   final_reply, result, history_read, normVars, dedupVars, otherVars>>

\* stage_2_final_selection with the oracle's reply, and the return.
FinalReply ==
    /\ phase = "stage2"
    /\ \E reply \in FinalReplies :
         \E out \in {stage_2_final_selection(stage_1_articles, reply)} :
            /\ final_reply' = reply
            /\ IF out.raised
               THEN phase' = "raised" /\ UNCHANGED result
               ELSE /\ phase' = "returned"
                    /\ result' = Digest(all_articles, stage_1_articles, out.value)
    /\ UNCHANGED <<all_articles, recently_selected, now_ticks, diverse_articles,
                   batch_start, selected_indices, shortlist_replies, stage_1_articles,
                   history_read, normVars, dedupVars, otherVars>>

DigestNext == StartDigest \/ ShortlistReply \/ FinalReply

SpecDigest == DigestInit /\ [][DigestNext]_vars

(***************************************************************************)
(* remove_duplicates, run on two articles of different stories whose URLs  *)
(* differ in the query string or the fragment only, alone or with a third  *)
(* article before, between or after them.                                  *)
(***************************************************************************)
UrlStems ==
    {sch \o Repeat(WwwDot, w) \o UrlHost \o pth :
        sch \in UrlSchemes, w \in 0..MaxWww, pth \in UrlPaths}

UrlTails == {q \o f : q \in UrlQueries, f \in UrlFragments}

UrlPairs ==
    {<<Article([url |-> stem \o t1, title |-> TitleChip, content_excerpt |-> ContentBeta],
               "rss", NameFeed, 50, NoDate),
       Article([url |-> stem \o t2, title |-> TitleGpu, content_excerpt |-> ContentRays],
               "twitter", NameSocial, relevance_score, NoDate)>> :
        stem \in UrlStems, t1 \in UrlTails, t2 \in UrlTails,
        relevance_score \in {50, 85}}

Bystanders ==
    {Article(StoryChip, "twitter", NameSocial, 50, NoDate),
     Article(StoryChipByContent, "rss", NameFeed, 85, NoDate),
     Article(StoryGpu, "rss", NameFeed, 50, NoDate)}

UrlPairLists ==
    UrlPairs
    \cup {<<other, pair[1], pair[2]>> : other \in Bystanders, pair \in UrlPairs}
    \cup {<<pair[1], other, pair[2]>> : other \in Bystanders, pair \in UrlPairs}
    \cup {<<pair[1], pair[2], other>> : other \in Bystanders, pair \in UrlPairs}

UrlPairInit ==
    /\ articles \in {WithIds(l) : l \in UrlPairLists}
    /\ firstRun = EmptyRun
    /\ secondRun = EmptyRun
    /\ dpc = "input"
    /\ NormIdle
    /\ DigestIdle
    /\ OthersIdle

UrlPairNext == RemoveDuplicates

SpecUrlPair == UrlPairInit /\ [][UrlPairNext]_vars

(***************************************************************************)
(* The pipeline: the aggregator removes the duplicates of the collected    *)
(* articles and create_daily_digest is run on what is left.                *)
(***************************************************************************)
PipelineInit ==
    /\ articles \in ListsOver(ArticlePool, MaxPipelineArticles)
    /\ firstRun = EmptyRun
    /\ secondRun = EmptyRun
    /\ dpc = "input"
    /\ NormIdle
    /\ DigestIdle
    /\ OthersIdle

\* unique_articles becomes aggregated_content.articles, the argument of
\* create_daily_digest; the history is whatever the database holds.
PassUniqueArticles ==
    /\ dpc = "once"
    /\ phase = "idle"
    /\ all_articles' = firstRun.final_unique
    /\ recently_selected' \in RecentlySelectedChoices
    /\ phase' = "start"
    /\ UNCHANGED <<now_ticks, diverse_articles, batch_start, selected_indices,
                   shortlist_replies, stage_1_articles, final_reply, result,
                   history_read, normVars, dedupVars, otherVars>>

PipelineNext ==
    RemoveDuplicates \/ PassUniqueArticles \/ StartDigest \/ ShortlistReply \/ FinalReply

SpecPipeline == PipelineInit /\ [][PipelineNext]_vars

(***************************************************************************)
(* Properties of remove_duplicates (under SpecDedup).                      *)
(***************************************************************************)

\* C1: remove_duplicates run on its own output returns that output unchanged:
\* nothing removed, replaced, reordered, no field changed.
DedupIsFixedPoint ==
    dpc = "twice" => secondRun.final_unique = firstRun.final_unique

\* A pair of one rss and one twitter article with equal relevance_score and
\* equal content length, deduplicated.
FeedSocialPair ==
    /\ dpc = "once"
    /\ Len(articles) = 2
    /\ {articles[1].source_type, articles[2].source_type} = {"rss", "twitter"}
    /\ articles[1].relevance_score = articles[2].relevance_score
    /\ Len(articles[1].content_excerpt) = Len(articles[2].content_excerpt)

MergedByUrl == Len(firstRun.unique_by_url) = 1

MergedByTitle == Len(firstRun.unique_by_url) = 2 /\ Len(firstRun.unique_by_title) = 1

MergedByContent ==
    Len(firstRun.unique_by_title) = 2 /\ Len(firstRun.unique_by_content) = 1

MergedByKey == Len(firstRun.unique_by_content) = 2 /\ Len(firstRun.final_unique) = 1

SameContentHash ==
    calculate_content_hash(Strip(articles[1].content_excerpt))
        = calculate_content_hash(Strip(articles[2].content_excerpt))

\* the quality scores of the two differ by the source-type bonus only
SameQualityButType ==
    calculate_article_quality_score([articles[1] EXCEPT !.source_type = "other"])
        = calculate_article_quality_score([articles[2] EXCEPT !.source_type = "other"])

NormalizeUrlIdempotent ==
    norm_kind = "url" /\ npc = "twice" => norm_twice = norm_once

\* C7: normalize_title(normalize_title(t)) = normalize_title(t) for every title t.
NormalizeTitleIdempotent ==
    norm_kind = "title" /\ npc = "twice" => norm_twice = norm_once

(***************************************************************************)
(* Properties of _apply_diversity_filtering (under SpecFilter).            *)
(***************************************************************************)
Remaining ==
    LET NotRecent(a) == a.url \notin recently_selected
    IN SelectSeq(all_articles, NotRecent)

RemainingFrom(source_name) ==
    LET FromSource(a) == a.source_name = source_name
    IN SelectSeq(Remaining, FromSource)

RemainingSources == {Remaining[k].source_name : k \in 1..Len(Remaining)}

Cap ==
    IF Len(Remaining) \div Cardinality(RemainingSources) > 2
    THEN Len(Remaining) \div Cardinality(RemainingSources)
    ELSE 2

\* the positions, among a source's remaining articles, of those in the output
KeptOf(source_name) ==
    {k \in 1..Len(RemainingFrom(source_name)) :
        \E j \in 1..Len(diverse_articles) :
            diverse_articles[j].id = RemainingFrom(source_name)[k].id}

OutputCount(source_name) ==
    Cardinality({j \in 1..Len(diverse_articles) :
                    diverse_articles[j].source_name = source_name})

\* C8: with R remaining articles over S sources and the cap max(2, R div S), a
\* source with N > cap remaining articles has exactly cap articles in the
\* output, none of them older by the recency key than one that was dropped;
\* a source with N <= cap keeps all N.
DiversityCapKeepsMostRecent ==
    phase = "filtered" =>
        \A s \in RemainingSources :
            LET N == Len(RemainingFrom(s))
                keyed == SourceEntries(RemainingFrom(s), now_ticks)
            IN /\ OutputCount(s) = IF N > Cap THEN Cap ELSE N
               /\ Cardinality(KeptOf(s)) = OutputCount(s)
               /\ \A k \in KeptOf(s) : \A d \in (1..N) \ KeptOf(s) :
                      keyed[k].key.t >= keyed[d].key.t

\* a source over the cap whose first article is dropped for more recent ones
CapDropsAnEarlierArticle ==
    /\ phase = "filtered"
    /\ \E s \in RemainingSources :
          /\ Len(RemainingFrom(s)) > Cap
          /\ 1 \notin KeptOf(s)
          /\ OutputCount(s) = Cap

(***************************************************************************)
(* Properties of create_daily_digest (under SpecDigest).                   *)
(***************************************************************************)

\* stage_1_filtering went through its batches and returned
ShortlistReturned == phase \in {"stage2", "returned"} /\ shortlist_replies # << >>

EveryShortlistCallRaised ==
    \A b \in 1..Len(shortlist_replies) : shortlist_replies[b].kind = "raise"

FirstOf(list, n) == SubSeq(list, 1, IF Len(list) < n THEN Len(list) ELSE n)

\* C2, as stated: when every oracle call raises, the shortlist is the first
\* min(20, n) of the n candidates, in candidate order.
FallbackShortlistIsFirstTwenty ==
    ShortlistReturned /\ EveryShortlistCallRaised
        => stage_1_articles = FirstOf(diverse_articles, 20)

\* the candidates at the first ten places of each batch of fifty
FirstTenOfEachBatch ==
    LET AmongFirstTen(k) == (k - 1) % 50 < 10
        places == SelectSeq([k \in 1..Len(diverse_articles) |-> k], AmongFirstTen)
    IN [i \in 1..Len(places) |-> diverse_articles[places[i]]]

\* C2, amended: when every oracle call raises, each batch of fifty contributes
\* its first min(10, batch length) candidates, and the shortlist is the first
\* twenty of these, in candidate order.
FallbackShortlistIsFirstTenPerBatch ==
    ShortlistReturned /\ EveryShortlistCallRaised
        => stage_1_articles = FirstOf(FirstTenOfEachBatch, 20)

\* two batches, both failed, and a shortlist that skips candidates 10..49
FallbackOverTwoBatches ==
    /\ ShortlistReturned
    /\ EveryShortlistCallRaised
    /\ Len(shortlist_replies) = 2
    /\ Len(stage_1_articles) = 20
    /\ stage_1_articles[11] = diverse_articles[51]

FinalCallFailed ==
    final_reply.kind \in {"raise", "garbage", "no_selected_indices",
                          "no_daily_summary", "no_key_insights"}

\* C3: when the final oracle call raises, or its reply is not JSON or lacks a
\* required key, the final selection is the first min(5, n) of the n shortlisted
\* candidates in order, the only insight says that manual review is needed, and
\* there are no per-article summaries.
FinalFallbackIsFirstFive ==
    phase = "returned" /\ FinalCallFailed
        => /\ result.selected_articles = FirstOf(stage_1_articles, 5)
           /\ result.key_insights = <<"Fallback mode - manual review needed">>
           /\ result.article_summaries = << >>

\* a failed final call over more than five shortlisted candidates
FinalFallbackCuts ==
    /\ phase = "returned"
    /\ final_reply.kind = "garbage"
    /\ Len(stage_1_articles) > 5
    /\ Len(result.selected_articles) = 5

\* C4: create_daily_digest returns for every input pool and every oracle
\* behaviour; it never raises.
DigestNeverRaises == phase # "raised"

NoneRecent(list) == \A k \in 1..Len(list) : list[k].url \notin recently_selected

\* C9: no article whose URL is in the recently-selected set is in the output
\* of the diversity filter, in the shortlist or in the final selection,
\* whatever the oracle replies.
NoRecentlySelectedArticle ==
    /\ NoneRecent(diverse_articles)
    /\ NoneRecent(stage_1_articles)
    /\ NoneRecent(result.selected_articles)

\* a digest returned with articles, from a pool that held a recently selected one
DigestSkipsRecentlySelected ==
    /\ phase = "returned"
    /\ \E k \in 1..Len(all_articles) : all_articles[k].url \in recently_selected
    /\ final_reply.kind = "json"
    /\ result.selected_articles # << >>

EveryShortlistReplyUsed ==
    \A b \in 1..Len(shortlist_replies) :
        /\ shortlist_replies[b].kind = "json"
        /\ \A k \in 1..Len(shortlist_replies[b].selected_indices) :
               shortlist_replies[b].selected_indices[k].t = "int"

BatchLength(b) ==
    IF Len(diverse_articles) - 50 * (b - 1) < 50
    THEN Len(diverse_articles) - 50 * (b - 1)
    ELSE 50

\* the article is the one an index of batch b's reply names within batch b
NamedInBounds(article) ==
    \E b \in 1..Len(shortlist_replies) :
        \E k \in 1..Len(shortlist_replies[b].selected_indices) :
            LET i == shortlist_replies[b].selected_indices[k].v
            IN /\ 0 <= i
               /\ i < BatchLength(b)
               /\ diverse_articles[50 * (b - 1) + i + 1] = article

\* C10: an index outside its batch's bounds selects no article: every
\* shortlisted article is named by an index within the bounds of its batch.
OutOfBatchIndexSelectsNothing ==
    ShortlistReturned /\ EveryShortlistReplyUsed
        => \A j \in 1..Len(stage_1_articles) : NamedInBounds(stage_1_articles[j])

\* the reply to batch b made its batch fall back to the default
FellBack(reply) ==
    \/ reply.kind # "json"
    \/ \E k \in 1..Len(reply.selected_indices) : reply.selected_indices[k].t = "str"

SomeBatchFellBack ==
    \E b \in 1..Len(shortlist_replies) : FellBack(shortlist_replies[b])

\* the replies of the run in which the oracle itself names, for every batch
\* that fell back, the indices of the default, and no batch falls back
CuratedReplies ==
    [b \in 1..Len(shortlist_replies) |->
        IF FellBack(shortlist_replies[b])
        THEN [kind |-> "json",
              selected_indices |-> [k \in 1..Min(FallbackCount, BatchLength(b)) |->
                                       Int_(k - 1)]]
        ELSE shortlist_replies[b]]

RECURSIVE SelectedOver(_, _, _)
SelectedOver(replies, b, candidates) ==
    IF b > Len(replies) THEN << >>
    ELSE BatchSelected(replies[b], batch_size * (b - 1),
                       Min(batch_size, candidates - batch_size * (b - 1)))
             \o SelectedOver(replies, b + 1, candidates)

\* what create_daily_digest returns for the pool all and its candidates
\* diverse when the shortlist calls are answered by replies and the final
\* call by final
DigestOver(all, diverse, replies, final) ==
    LET stage_1 == Shortlist(diverse, SelectedOver(replies, 1, Len(diverse))).value
    IN Digest(all, stage_1, stage_2_final_selection(stage_1, final).value)

\* the same pool, history and clock, and the final call answered as before
DigestWith(replies) == DigestOver(all_articles, diverse_articles, replies, final_reply)

\* C11: the result of a run in which a shortlist batch fell back to the
\* default differs (in its articles, texts, insights or counts) from the
\* result of the run in which the oracle returned the default's indices
\* itself and no batch fell back.
FallbackIsObservable ==
    phase = "returned" /\ SomeBatchFellBack => result # DigestWith(CuratedReplies)

\* the result a run returned is the one its replies determine
ResultFollowsReplies ==
    phase = "returned" /\ shortlist_replies # << >>
        => result = DigestWith(shortlist_replies)

\* the step is one pass of the loop over batches, and the call of that pass
\* raised, or its reply was no JSON or had no selected_indices
FailedBatchStep ==
    /\ phase = "batches"
    /\ Len(shortlist_replies') = Len(shortlist_replies) + 1
    /\ shortlist_replies'[Len(shortlist_replies')].kind \in FailureKinds

\* the step is one pass of the loop whose reply lists integers only
AnsweredBatchStep ==
    /\ phase = "batches"
    /\ Len(shortlist_replies') = Len(shortlist_replies) + 1
    /\ ~FellBack(shortlist_replies'[Len(shortlist_replies')])

\* the positions of the first min(10, batch length) candidates of the batch
\* that starts at position start
DefaultOfBatch(start) ==
    [k \in 1..Min(10, Len(diverse_articles) - start) |-> Int_(start + k - 1)]

\* C12: a batch whose oracle call raises, or whose reply cannot be parsed or
\* lacks selected_indices, contributes its first min(10, batch length)
\* candidates in input order; what the earlier batches contributed stays as it
\* was, the loop goes on to the next batch if there is one, and a later batch
\* that is answered contributes the indices of its own reply, offset by its
\* start, whatever happened to the batches before it.
BatchFailureIsLocal ==
    [][/\ FailedBatchStep
           => /\ selected_indices' = selected_indices \o DefaultOfBatch(batch_start)
              /\ batch_start + 50 < Len(diverse_articles)
                     => phase' = "batches" /\ batch_start' = batch_start + 50
       /\ AnsweredBatchStep
           => selected_indices'
                  = selected_indices
                      \o [k \in 1..Len(shortlist_replies'[Len(shortlist_replies')]
                                          .selected_indices) |->
                            [shortlist_replies'[Len(shortlist_replies')]
                                 .selected_indices[k] EXCEPT !.v = @ + batch_start]]
      ]_vars

\* the first of two batches failed and the second was answered: ten default
\* candidates, then the two the oracle chose from the second batch
SecondBatchAfterFailure ==
    /\ Len(shortlist_replies) = 2
    /\ shortlist_replies[1].kind = "garbage"
    /\ shortlist_replies[2] = [kind |-> "json", selected_indices |-> <<Int_(1), Int_(0)>>]
    /\ selected_indices = [k \in 1..10 |-> Int_(k - 1)] \o <<Int_(51), Int_(50)>>
    /\ phase = "stage2"

(***************************************************************************)
(* Properties of the pipeline (under SpecPipeline).                        *)
(***************************************************************************)
OracleAlwaysFailed ==
    /\ EveryShortlistCallRaised
    /\ final_reply.kind = "raise"

\* one failed call for every batch of n candidates
FailedCalls(n) == [b \in 1..((n + batch_size - 1) \div batch_size) |-> [kind |-> "raise"]]

\* another run of the pipeline on the same collected articles and the same
\* history, with an oracle that always fails
RunWithFailingOracle(clock_ticks) ==
    LET unique == remove_duplicates(articles)
        filtered == _apply_diversity_filtering(unique, recently_selected, clock_ticks)
    IN IF filtered.raised THEN Raised
       ELSE Returned(DigestOver(unique, filtered.value, FailedCalls(Len(filtered.value)),
                                [kind |-> "raise"]))

\* C13: two runs of the pipeline on the same pool in the same order, with the
\* same recently-selected set and an oracle that always fails, return the
\* same result: the same articles in the same order with the same fields,
\* the same insights and the same counts.
PipelineIsDeterministic ==
    phase = "returned" /\ dpc = "once" /\ OracleAlwaysFailed
        => \A clock_ticks \in BOOLEAN : RunWithFailingOracle(clock_ticks) = Returned(result)

\* without the clock, the run is the one its inputs determine
PipelineFollowsClock ==
    phase = "returned" /\ dpc = "once" /\ OracleAlwaysFailed
        => RunWithFailingOracle(now_ticks) = Returned(result)

(***************************************************************************)
(* Properties of the URL step (under SpecUrlPair).                         *)
(***************************************************************************)
\* the URL up to its query string and fragment
UpToQuery(url) ==
    IF FindAny(url, {"?", "#"}, 1) <= Len(url)
    THEN Slice(url, 1, FindAny(url, {"?", "#"}, 1) - 1)
    ELSE url

\* two non-empty URLs that differ, and only after scheme, host and path
DifferInQueryOnly(url1, url2) ==
    /\ url1 # << >>
    /\ url2 # << >>
    /\ url1 # url2
    /\ UpToQuery(url1) = UpToQuery(url2)

HoldsArticle(list, article) == \E k \in 1..Len(list) : list[k].id = article.id

DedupNeverRaises == dpc # "raised"

\* missing keys alone are handled with defaults
MissingKeysHandled ==
    dpc = "input" /\ (\A k \in 1..Len(articles) : articles[k] = [EmptyDict EXCEPT !.id = k])
        => ~RemoveDuplicatesRaises(articles, remove_duplicates_steps(articles))

(***************************************************************************)
(* More properties of create_daily_digest (under SpecDigest).              *)
(***************************************************************************)

\* C16: create_daily_digest of an empty list returns the empty result (no
\* selected articles, no insights, total_processed 0); it does not raise,
\* does not read the recently-selected history and does not call the oracle.
EmptyPoolGivesEmptyDigest ==
    all_articles = << >> /\ phase # "start"
        => /\ phase = "returned"
           /\ result.selected_articles = << >>
           /\ result.key_insights = << >>
           /\ result.total_processed = 0
           /\ result.digest_text = "No articles available for digest"
           /\ DOMAIN result = {"selected_articles", "digest_text", "key_insights",
                               "total_processed"}
           /\ ~history_read
           /\ shortlist_replies = << >>
           /\ final_reply = NoReply

\* the empty list, digested while the history holds a URL
EmptyPoolReturned ==
    /\ all_articles = << >>
    /\ recently_selected # {}
    /\ phase = "returned"
    /\ ~history_read

(***************************************************************************)
(* More properties of the pipeline (under SpecPipeline).                   *)
(***************************************************************************)
\* the article is one of the list's, with every field as it is there
IsArticleOf(list, article) == \E k \in 1..Len(list) : list[k] = article

AllArticlesOf(list, sublist) == \A k \in 1..Len(sublist) : IsArticleOf(list, sublist[k])

\* the article was retained for a title-key group of two or more
RetainedWinner(article) ==
    \E i, j \in 1..Len(firstRun.unique_by_content) :
        /\ i # j
        /\ firstRun.unique_by_content[i].id = article.id
        /\ title_key_of(firstRun.unique_by_content[i])
               = title_key_of(firstRun.unique_by_content[j])

\* what the steps of remove_duplicates return holds the caller's articles
\* with their fields unchanged, but for the retained winner of a merged group
OnlyWinnersChange ==
    dpc = "once" =>
        /\ AllArticlesOf(articles, firstRun.unique_by_url)
        /\ AllArticlesOf(articles, firstRun.unique_by_title)
        /\ AllArticlesOf(articles, firstRun.unique_by_content)
        /\ \A k \in 1..Len(firstRun.final_unique) :
               \/ IsArticleOf(articles, firstRun.final_unique[k])
               \/ RetainedWinner(firstRun.final_unique[k])

\* the filter and the two stages return articles of their input, unchanged
StagesReturnInputArticles ==
    /\ AllArticlesOf(all_articles, diverse_articles)
    /\ AllArticlesOf(diverse_articles, stage_1_articles)
    /\ phase = "returned" => AllArticlesOf(stage_1_articles, result.selected_articles)

\* a step leaves the list it was called on as it was
InputListsKept ==
    /\ articles' = articles
    /\ phase # "idle" => all_articles' = all_articles
    /\ phase = "batches" => diverse_articles' = diverse_articles
    /\ phase = "stage2" => stage_1_articles' = stage_1_articles

CarriesInputIdentity(article) ==
    \E j \in 1..Len(articles) :
        /\ article.url = articles[j].url
        /\ article.title = articles[j].title
        /\ article.source_name = articles[j].source_name

\* C18: remove_duplicates returns a list no longer than its input; every
\* returned article carries the url, title and source_name of an article of
\* the input, and no article is returned twice.
OutputWithinInput ==
    dpc = "once" =>
        /\ Len(firstRun.final_unique) <= Len(articles)
        /\ \A k \in 1..Len(firstRun.final_unique) :
               CarriesInputIdentity(firstRun.final_unique[k])
        /\ \A k, l \in 1..Len(firstRun.final_unique) :
               k # l => firstRun.final_unique[k].id # firstRun.final_unique[l].id

\* three articles reduced to two, one of them merged from two of the input
ShorterWithMergedArticle ==
    /\ dpc = "once"
    /\ Len(articles) = 3
    /\ Len(firstRun.final_unique) = 2
    /\ \E k \in 1..2 : \A j \in 1..3 : firstRun.final_unique[k] # articles[j]

\* the integers the replies name, each offset by the start of its batch, in
\* the order of the batches
RECURSIVE OffsetIndices(_)
OffsetIndices(b) ==
    IF b > Len(shortlist_replies) THEN << >>
    ELSE [k \in 1..Len(shortlist_replies[b].selected_indices) |->
             shortlist_replies[b].selected_indices[k].v + 50 * (b - 1)]
         \o OffsetIndices(b + 1)

\* those that name a candidate
CandidateIndices ==
    LET Names(i) == 0 <= i /\ i < Len(diverse_articles)
    IN SelectSeq(OffsetIndices(1), Names)

SingleBatchInRange ==
    /\ Len(shortlist_replies) = 1
    /\ EveryShortlistReplyUsed
    /\ \A k \in 1..Len(shortlist_replies[1].selected_indices) :
           /\ 0 <= shortlist_replies[1].selected_indices[k].v
           /\ shortlist_replies[1].selected_indices[k].v < Len(diverse_articles)

\* C19: the shortlist holds the candidates at the indices the batches
\* returned, each offset by its batch's start, in batch order, without those
\* outside [0, number of candidates), cut to the first 20; for a single batch
\* answered with in-range indices it is the candidates at those indices in
\* the oracle's order; it never holds more than 20 articles.
ShortlistFollowsIndices ==
    /\ Len(stage_1_articles) <= 20
    /\ ShortlistReturned /\ EveryShortlistReplyUsed
           => stage_1_articles
                  = [k \in 1..Min(20, Len(CandidateIndices)) |->
                        diverse_articles[CandidateIndices[k] + 1]]
    /\ ShortlistReturned /\ SingleBatchInRange
           => /\ Len(stage_1_articles) = Min(20, Len(shortlist_replies[1].selected_indices))
              /\ \A k \in 1..Len(stage_1_articles) :
                     stage_1_articles[k]
                         = diverse_articles[shortlist_replies[1].selected_indices[k].v + 1]

\* a single batch answered with more than 20 in-range indices: the shortlist
\* is the candidates at the first 20, in the oracle's order
LongReplyCutToTwenty ==
    /\ ShortlistReturned
    /\ SingleBatchInRange
    /\ Len(shortlist_replies[1].selected_indices) > 20
    /\ Len(stage_1_articles) = 20
    /\ stage_1_articles[13] = diverse_articles[1]
    /\ stage_1_articles[12] # diverse_articles[1]

HasContent(article) == Strip(Get(article.content_excerpt, << >>)) # << >>

\* the two are duplicates by the test of remove_content_duplicates: the same
\* content hash, or a combined similarity above the threshold
ContentDuplicates(earlier, later) ==
    \/ calculate_content_hash(Strip(Get(earlier.content_excerpt, << >>)))
           = calculate_content_hash(Strip(Get(later.content_excerpt, << >>)))
    \/ IsSimilar(later, earlier)

\* C20: after remove_content_duplicates, no two retained articles with
\* non-empty content have the same content hash or a combined similarity
\* above the threshold, also after an incoming article replaced an incumbent.
NoContentDuplicatesRetained ==
    dpc = "once" =>
        \A i, j \in 1..Len(firstRun.unique_by_content) :
            /\ i < j
            /\ HasContent(firstRun.unique_by_content[i])
            /\ HasContent(firstRun.unique_by_content[j])
            => ~ContentDuplicates(firstRun.unique_by_content[i],
                                  firstRun.unique_by_content[j])


(***************************************************************************)
(* The replacement policy on its own: remove_content_duplicates at the     *)
(* moment it has found the current article similar to a processed one      *)
(* (deduplicator.py, the body of "if similarity > self.similarity_         *)
(* threshold").  The two articles carry one title and contents of 89, 89,  *)
(* 189 and 190 characters, every pair of which is above the threshold; a   *)
(* third article without content stands before or after the processed one  *)
(* in unique_articles.                                                     *)
(***************************************************************************)
Pattern == <<"c", "h", "i", "p", " ">>

Cycle(n) == [k \in 1..n |-> Pattern[((k - 1) % Len(Pattern)) + 1]]

ContentShort == Cycle(89)

ContentShortToo == Cycle(88) \o <<"s">>

\* 100 characters more than the short ones
ContentLonger == Cycle(189)

\* 101 characters more than the short ones
ContentLong == Cycle(189) \o <<"s">>

ReplaceContents == {ContentShort, ContentShortToo, ContentLonger, ContentLong}

ReplaceScores == {30, 50, NoScore}

ReplaceTypes == {"rss", "gmail_newsletter", "twitter"}

ReplaceDates == {NoDate, 18, 19}

Candidates ==
    {Article([url |-> << >>, title |-> TitleChip, content_excerpt |-> c],
             t, NameFeed, s, d) :
        c \in ReplaceContents, t \in ReplaceTypes, s \in ReplaceScores, d \in ReplaceDates}

Bystander ==
    Article([url |-> << >>, title |-> TitleGpu, content_excerpt |-> << >>],
            "twitter", NameSocial, 50, NoDate)

\* The two lists the policy writes, after the loop took the processed article
\* (and the one without content, which is appended to unique_articles only).
FoundWith(processed_article, bystander_first) ==
    [unique_articles |->
        IF bystander_first
        THEN <<[Bystander EXCEPT !.id = 1], [processed_article EXCEPT !.id = 2]>>
        ELSE <<[processed_article EXCEPT !.id = 1], [Bystander EXCEPT !.id = 2]>>,
     processed_articles |->
        <<[processed_article EXCEPT !.id = IF bystander_first THEN 2 ELSE 1]>>]

ReplaceInit ==
    /\ NormIdle
    /\ DedupIdle
    /\ DigestIdle
    /\ \E processed_article \in Candidates, new_article \in Candidates :
          /\ processed_article.content_excerpt # new_article.content_excerpt
          /\ \E bystander_first \in BOOLEAN :
                found = FoundWith(processed_article, bystander_first)
          /\ current_article = [new_article EXCEPT !.id = 3]
    /\ resolved = NoCollections
    /\ rpc = "found"
    /\ EvalIdle
    /\ PromptIdle
    /\ RunIdle

\* if self.should_replace_article(current_article, processed_article): ... break
ResolveDuplicate ==
    /\ rpc = "found"
    /\ resolved' = ReplaceSimilar(found, current_article, found.processed_articles[1])
    /\ rpc' = "resolved"
    /\ UNCHANGED <<found, current_article, normVars, dedupVars, digestVars, evalVars,
                   promptVars, runVars>>

ReplaceNext == ResolveDuplicate

SpecReplace == ReplaceInit /\ [][ReplaceNext]_vars


(***************************************************************************)
(* Properties of the replacement policy (under SpecReplace).               *)
(***************************************************************************)
Stronger(new_value, existing_value) ==
    IF new_value > existing_value THEN "new"
    ELSE IF existing_value > new_value THEN "existing"
    ELSE "tie"

ByRelevance(new_article, existing_article) ==
    Stronger(new_article.relevance_score, existing_article.relevance_score)

ByLength(new_article, existing_article) ==
    LET new_length == Len(new_article.content_excerpt)
        existing_length == Len(existing_article.content_excerpt)
    IN IF new_length - existing_length > 100 \/ existing_length - new_length > 100
       THEN Stronger(new_length, existing_length)
       ELSE "tie"

TypeOrder == <<"twitter", "gmail_newsletter", "rss">>

TypeRank(source_type) == CHOOSE k \in 1..Len(TypeOrder) : TypeOrder[k] = source_type

BySourceType(new_article, existing_article) ==
    Stronger(TypeRank(new_article.source_type), TypeRank(existing_article.source_type))

ByDate(new_article, existing_article) ==
    IF new_article.published_at = NoDate \/ existing_article.published_at = NoDate
    THEN "tie"
    ELSE Stronger(new_article.published_at, existing_article.published_at)

TieBreakers(new_article, existing_article) ==
    <<ByRelevance(new_article, existing_article),
      ByLength(new_article, existing_article),
      BySourceType(new_article, existing_article),
      ByDate(new_article, existing_article)>>

FirstDecisive(verdicts) ==
    IF \A k \in 1..Len(verdicts) : verdicts[k] = "tie" THEN "existing"
    ELSE verdicts[CHOOSE k \in 1..Len(verdicts) :
                      /\ verdicts[k] # "tie"
                      /\ \A j \in 1..(k - 1) : verdicts[j] = "tie"]

Incumbent == found.processed_articles[1]

IncumbentPosition ==
    CHOOSE k \in 1..Len(found.unique_articles) : found.unique_articles[k].id = Incumbent.id

Survivor ==
    IF FirstDecisive(TieBreakers(current_article, Incumbent)) = "new"
    THEN current_article
    ELSE Incumbent

BothScored ==
    current_article.relevance_score # NoScore /\ Incumbent.relevance_score # NoScore

\* C21: when the content step finds the current article a near-duplicate of a
\* processed one, both carrying a relevance_score, the survivor is the one the
\* first decisive tie-breaker names (higher score; content longer by more than
\* 100 characters; rss over gmail_newsletter over twitter; later published_at;
\* else the incumbent), it stands at the incumbent's position of the output,
\* and nothing else of the output changes.
SurvivorByTieBreakers ==
    rpc = "resolved" /\ BothScored =>
        /\ resolved.unique_articles =
               [found.unique_articles EXCEPT ![IncumbentPosition] = Survivor]
        /\ resolved.processed_articles = <<Survivor>>

\* The fourth tie-breaker decides: equal scores, lengths 100 characters apart,
\* one source type, and the later article replaces the incumbent in place.
LaterArticleReplacesInPlace ==
    /\ rpc = "resolved"
    /\ BothScored
    /\ TieBreakers(current_article, Incumbent) = <<"tie", "tie", "tie", "new">>
    /\ Len(current_article.content_excerpt) = Len(Incumbent.content_excerpt) + 100
    /\ IncumbentPosition = 2
    /\ resolved.unique_articles[2] = current_article
    /\ resolved.unique_articles[1] = found.unique_articles[1]


OtherwiseEqual(new_article, existing_article) ==
    /\ Len(new_article.content_excerpt) = Len(existing_article.content_excerpt)
    /\ new_article.source_type = existing_article.source_type
    /\ new_article.source_name = existing_article.source_name
    /\ new_article.published_at = existing_article.published_at

IncumbentKept == resolved.unique_articles[IncumbentPosition] = Incumbent

\* C22: an article without relevance_score counts as scored 50: of two
\* near-duplicates that differ in nothing else that the policy reads, the one
\* scored 30 loses to the one without a score, whichever of them came first;
\* and the quality score of the one without a score is the higher.
MissingScoreCountsAsFifty ==
    rpc = "resolved" /\ OtherwiseEqual(current_article, Incumbent) =>
        /\ current_article.relevance_score = 30 /\ Incumbent.relevance_score = NoScore
              => /\ IncumbentKept
                 /\ calculate_article_quality_score(Incumbent)
                        > calculate_article_quality_score(current_article)
        /\ current_article.relevance_score = NoScore /\ Incumbent.relevance_score = 30
              => /\ ~IncumbentKept
                 /\ calculate_article_quality_score(current_article)
                        > calculate_article_quality_score(Incumbent)


(***************************************************************************)
(* Sizes and repetitions of the two selections (under SpecDigest).         *)
(***************************************************************************)

\* C23: the final selection of a returned digest holds at most five articles,
\* and final_count is at most five, whatever indices the oracle named.
FinalSelectionAtMostFive ==
    phase = "returned" =>
        /\ Len(result.selected_articles) <= 5
        /\ all_articles # << >> => result.final_count <= 5


(***************************************************************************)
(* Properties of the cross-source and URL steps (under SpecDedup).         *)
(***************************************************************************)
Bucket(list, key) ==
    SelectSeq(list, LAMBDA article : title_key_of(article) = key)

\* The member of a bucket no other member outscores, the earliest of those.
TopOfBucket(bucket) ==
    bucket[CHOOSE k \in 1..Len(bucket) :
        /\ \A j \in 1..Len(bucket) :
              calculate_article_quality_score(bucket[j])
                  <= calculate_article_quality_score(bucket[k])
        /\ \A j \in 1..(k - 1) :
              calculate_article_quality_score(bucket[j])
                  # calculate_article_quality_score(bucket[k])]

TagsOf(bucket) == UNION {bucket[k].tags : k \in 1..Len(bucket)}

\* C24: handle_cross_source_duplicates leaves, of every bucket of articles with
\* one title_key, exactly one article: the member with the highest quality
\* score, the earliest such in input order (carrying no tag of another
\* bucket); so the output of remove_duplicates holds no two articles with one
\* title_key.
BucketsCollapseToBest ==
    dpc = "once" =>
        /\ \A i \in 1..Len(firstRun.final_unique) :
              \A j \in (i + 1)..Len(firstRun.final_unique) :
                 title_key_of(firstRun.final_unique[i])
                     # title_key_of(firstRun.final_unique[j])
        /\ \A k \in 1..Len(firstRun.unique_by_content) :
              LET key == title_key_of(firstRun.unique_by_content[k])
                  bucket == Bucket(firstRun.unique_by_content, key)
                  left == Bucket(firstRun.final_unique, key)
              IN /\ Len(left) = 1
                 /\ left[1].id = TopOfBucket(bucket).id
                 /\ left[1].title = TopOfBucket(bucket).title
                 /\ left[1].relevance_score = TopOfBucket(bucket).relevance_score
                 /\ left[1].tags \subseteq TagsOf(bucket)

\* Two buckets reach the step, and in one of them a later member outscores the
\* first and is the one left.
LaterMemberWinsBucket ==
    /\ dpc = "once"
    /\ Len(firstRun.final_unique) = 2
    /\ \E k \in 1..Len(firstRun.unique_by_content) :
          LET bucket == Bucket(firstRun.unique_by_content,
                               title_key_of(firstRun.unique_by_content[k]))
          IN /\ Len(bucket) = 2
             /\ TopOfBucket(bucket).id = bucket[2].id
             /\ \E i \in 1..2 : firstRun.final_unique[i].id = bucket[2].id


(***************************************************************************)
(* More properties of the URL step (under SpecUrlPair).                    *)
(***************************************************************************)
HasUrl(article) == Strip(article.url) # << >>

SameNormalizedUrl(earlier, later) ==
    /\ HasUrl(earlier)
    /\ HasUrl(later)
    /\ normalize_url(Strip(earlier.url)) = normalize_url(Strip(later.url))

\* C25: remove_url_duplicates keeps every article with an empty URL, and of
\* the articles with one normalized URL it keeps the earliest of the input and
\* no other, whatever their relevance scores; and the output of
\* remove_duplicates holds no two articles with URLs that normalize alike.
EarliestOfEachUrlKept ==
    dpc = "once" =>
        /\ \A k \in 1..Len(articles) :
              ~HasUrl(articles[k]) => HoldsArticle(firstRun.unique_by_url, articles[k])
        /\ \A j \in 1..Len(articles) :
              HasUrl(articles[j]) =>
                  (HoldsArticle(firstRun.unique_by_url, articles[j])
                      <=> \A i \in 1..(j - 1) : ~SameNormalizedUrl(articles[i], articles[j]))
        /\ \A i \in 1..Len(firstRun.final_unique) :
              \A j \in (i + 1)..Len(firstRun.final_unique) :
                 ~SameNormalizedUrl(firstRun.final_unique[i], firstRun.final_unique[j])

\* An article without URL first, then two with one normalized URL of which the
\* later has the higher score: the step keeps the first two.
LowerScoredEarlierKept ==
    /\ dpc = "once"
    /\ Len(articles) = 3
    /\ ~HasUrl(articles[1])
    /\ SameNormalizedUrl(articles[2], articles[3])
    /\ articles[3].relevance_score > articles[2].relevance_score
    /\ firstRun.unique_by_url = <<articles[1], articles[2]>>


NoRepeats(list) ==
    \A i \in 1..Len(list) : \A j \in (i + 1)..Len(list) : list[i].id # list[j].id

\* C26: no article stands twice in the shortlist of stage_1_filtering, and none
\* stands twice in the final selection of stage_2_final_selection.
SelectionsHoldNoRepeats ==
    /\ phase \in {"stage2", "returned"} => NoRepeats(stage_1_articles)
    /\ phase = "returned" => NoRepeats(result.selected_articles)

\* C27: the counts of a digest of a non-empty pool are the sizes of the lists
\* they name, and final_count <= stage_1_count <= total_processed.
CountsNeverGrow ==
    phase = "returned" /\ all_articles # << >> =>
        /\ result.total_processed = Len(all_articles)
        /\ result.stage_1_count = Len(stage_1_articles)
        /\ result.final_count = Len(result.selected_articles)
        /\ result.final_count <= result.stage_1_count
        /\ result.stage_1_count <= result.total_processed


(***************************************************************************)
(* AIEvaluator.batch_evaluate_articles: one task per article, each holding *)
(* the semaphore from before evaluate_article until after the sleep, and   *)
(* the loop that awaits the tasks in the order they finish.  A step of a   *)
(* task runs from one suspension (the API call, the sleep, a full          *)
(* semaphore) to the next, as the event loop runs it.                      *)
(***************************************************************************)
MaxEvaluated == 6

\* asyncio.Semaphore(5)
ConcurrentCalls == 5

\* The second article has no content_excerpt, the others have every field.
EvalArticle(k) ==
    [Article(StoryGpu, "rss", NameFeed, NoScore, NoDate)
        EXCEPT !.id = k, !.content_excerpt = IF k = 2 THEN Missing ELSE @]

\* call_openai_api returns a validated dict, or None after its retries.
NoEvaluation == [answered |-> FALSE, relevance_score |-> NoScore]

Evaluation(score) == [answered |-> TRUE, relevance_score |-> score]

AnswerPatterns(n) ==
    {[k \in 1..n |-> Evaluation(85)],
     [k \in 1..n |-> NoEvaluation],
     [k \in 1..n |-> IF k % 2 = 1 THEN Evaluation(85) ELSE NoEvaluation]}

create_default_evaluation(article_data) ==
    [article |-> article_data, evaluation_model |-> "heuristic",
     reasoning |-> "Automatic scoring based on content analysis"]

\* evaluate_article returns before any call when title or content is missing.
NeedsNoCall(article_data) ==
    Get(article_data.title, << >>) = << >> \/ Get(article_data.content_excerpt, << >>) = << >>

evaluate_article(article_data, evaluation_result) ==
    IF NeedsNoCall(article_data)
    THEN Returned(create_default_evaluation(article_data))
    ELSE IF evaluation_result.answered
    THEN Returned([article |-> article_data, evaluation_model |-> "OPENAI_MODEL",
                   relevance_score |-> evaluation_result.relevance_score])
    ELSE Returned(create_default_evaluation(article_data))

\* a semaphore that is never full
NeverLocked(value) == TRUE

\* Semaphore.acquire returns at once unless the value is 0.
CanAcquire(value) == value > 0

NoResult == [raised |-> FALSE, value |-> [evaluation_model |-> "none"]]

Tasks == 1..Len(eval_articles)

EvalInit ==
    /\ \E n \in 0..MaxEvaluated :
          /\ eval_articles = [k \in 1..n |-> EvalArticle(k)]
          /\ api_answers \in AnswerPatterns(n)
    /\ task_pc = << >>
    /\ semaphore = 0
    /\ task_result = << >>
    /\ completion_order = << >>
    /\ evaluated_articles = << >>
    /\ awaited = 0
    /\ epc = "start"
    /\ NormIdle
    /\ DedupIdle
    /\ DigestIdle
    /\ ReplaceIdle
    /\ PromptIdle
    /\ RunIdle

\* if not articles: return []; else the semaphore and the tasks are made.
StartBatch ==
    /\ epc = "start"
    /\ IF eval_articles = << >>
       THEN /\ epc' = "returned"
            /\ UNCHANGED <<task_pc, semaphore, task_result>>
       ELSE /\ epc' = "collecting"
            /\ semaphore' = ConcurrentCalls
            /\ task_pc' = [t \in Tasks |-> "created"]
            /\ task_result' = [t \in Tasks |-> NoResult]
    /\ UNCHANGED <<eval_articles, api_answers, completion_order, evaluated_articles,
                   awaited, normVars, dedupVars, digestVars, replaceVars, promptVars,
                   runVars>>

\* async with semaphore: result = await self.evaluate_article(article), up to
\* the API call, or up to the sleep when there is no call to make.
Acquire(t) ==
    /\ epc = "collecting"
    /\ t \in DOMAIN task_pc
    /\ task_pc[t] = "created"
    /\ CanAcquire(semaphore)
    /\ semaphore' = semaphore - 1
    /\ IF NeedsNoCall(eval_articles[t])
       THEN /\ task_pc' = [task_pc EXCEPT ![t] = "sleeping"]
            /\ task_result' =
                   [task_result EXCEPT
                       ![t] = evaluate_article(eval_articles[t], api_answers[t])]
       ELSE /\ task_pc' = [task_pc EXCEPT ![t] = "evaluating"]
            /\ UNCHANGED task_result
    /\ UNCHANGED <<eval_articles, api_answers, completion_order, evaluated_articles,
                   awaited, epc, normVars, dedupVars, digestVars, replaceVars,
                   promptVars, runVars>>

\* call_openai_api is over; evaluate_article returns and the task sleeps (or
\* it raises, and the semaphore is released on the way out).
ApiReturns(t) ==
    /\ epc = "collecting"
    /\ t \in DOMAIN task_pc
    /\ task_pc[t] = "evaluating"
    /\ \E out \in {evaluate_article(eval_articles[t], api_answers[t])} :
          /\ task_result' = [task_result EXCEPT ![t] = out]
          /\ IF out.raised
             THEN /\ task_pc' = [task_pc EXCEPT ![t] = "finished"]
                  /\ semaphore' = semaphore + 1
                  /\ completion_order' = Append(completion_order, t)
             ELSE /\ task_pc' = [task_pc EXCEPT ![t] = "sleeping"]
                  /\ UNCHANGED <<semaphore, completion_order>>
    /\ UNCHANGED <<eval_articles, api_answers, evaluated_articles, awaited, epc,
                   normVars, dedupVars, digestVars, replaceVars, promptVars, runVars>>

\* await asyncio.sleep(0.2) is over: the semaphore is released, the task is done.
SleepEnds(t) ==
    /\ epc = "collecting"
    /\ t \in DOMAIN task_pc
    /\ task_pc[t] = "sleeping"
    /\ task_pc' = [task_pc EXCEPT ![t] = "finished"]
    /\ semaphore' = semaphore + 1
    /\ completion_order' = Append(completion_order, t)
    /\ UNCHANGED <<eval_articles, api_answers, task_result, evaluated_articles, awaited,
                   epc, normVars, dedupVars, digestVars, replaceVars, promptVars,
                   runVars>>

\* One pass of "for task in asyncio.as_completed(tasks)": the next task that
\* finished is awaited; its result is appended, its exception is logged.
AwaitNext ==
    /\ epc = "collecting"
    /\ awaited < Len(completion_order)
    /\ awaited' = awaited + 1
    /\ \E out \in {task_result[completion_order[awaited + 1]]} :
          IF out.raised
          THEN UNCHANGED evaluated_articles
          ELSE evaluated_articles' = Append(evaluated_articles, out.value)
    /\ UNCHANGED <<eval_articles, api_answers, task_pc, semaphore, task_result,
                   completion_order, epc, normVars, dedupVars, digestVars, replaceVars,
                   promptVars, runVars>>

\* return evaluated_articles
ReturnBatch ==
    /\ epc = "collecting"
    /\ awaited = Len(eval_articles)
    /\ epc' = "returned"
    /\ UNCHANGED <<eval_articles, api_answers, task_pc, semaphore, task_result,
                   completion_order, evaluated_articles, awaited, normVars, dedupVars,
                   digestVars, replaceVars, promptVars, runVars>>

EvalNext ==
    \/ StartBatch
    \/ \E t \in Tasks : Acquire(t)
    \/ \E t \in Tasks : ApiReturns(t)
    \/ \E t \in Tasks : SleepEnds(t)
    \/ AwaitNext
    \/ ReturnBatch

SpecEvaluate == EvalInit /\ [][EvalNext]_vars

\* The event loop runs every task that can run, the API call returns or fails
\* within its retries, and the sleep ends.
EvalFairness ==
    /\ WF_vars(StartBatch)
    /\ \A t \in 1..MaxEvaluated :
          WF_vars(Acquire(t)) /\ WF_vars(ApiReturns(t)) /\ WF_vars(SleepEnds(t))
    /\ WF_vars(AwaitNext)
    /\ WF_vars(ReturnBatch)

SpecEvaluateFair == EvalInit /\ [][EvalNext]_vars /\ EvalFairness


(***************************************************************************)
(* Properties of batch_evaluate_articles (under SpecEvaluateFair).         *)
(***************************************************************************)
InEvaluateArticle == {t \in DOMAIN task_pc : task_pc[t] = "evaluating"}

HoldingSemaphore == {t \in DOMAIN task_pc : task_pc[t] \in {"evaluating", "sleeping"}}

AtMostFiveInProgress ==
    /\ Cardinality(InEvaluateArticle) <= 5
    /\ Cardinality(HoldingSemaphore) <= 5

\* one evaluated article per input article, in the order the tasks finished
OnePerArticleInCompletionOrder ==
    epc = "returned" =>
        /\ \A t \in Tasks : task_pc[t] = "finished"
        /\ Len(evaluated_articles) = Len(eval_articles)
        /\ \A k \in 1..Len(evaluated_articles) :
              evaluated_articles[k].article = eval_articles[completion_order[k]]
        /\ \A t \in Tasks : \E k \in 1..Len(completion_order) : completion_order[k] = t

MaxPromptClock == 6

\* self._cache_ttl = timedelta(minutes=5)
CacheTtl == 5

PromptNames == {"ai_scoring_prompt", "digest_prompt"}

PromptTexts == {"text 1", "text 2"}

NoRow == [present |-> FALSE, active |-> FALSE, prompt_text |-> ""]

Row(active, prompt_text) ==
    [present |-> TRUE, active |-> active, prompt_text |-> prompt_text]

AIPrompt(name, row) ==
    [name |-> name, prompt_text |-> row.prompt_text, active |-> row.active]

\* None, where a prompt is expected
NoPrompt == [name |-> "", prompt_text |-> "", active |-> FALSE]

NoTimestamp == [set |-> FALSE, at |-> 0]

\* select('*').eq('active', True)
ActiveRows(table) ==
    {AIPrompt(name, table[name]) :
        name \in {n \in PromptNames : table[n].present /\ table[n].active}}

_is_cache_valid(timestamp, now) ==
    timestamp.set /\ now - timestamp.at < CacheTtl

\* The cache and its timestamp after _refresh_cache: both are written only
\* when the reply holds a row.
_refresh_cache(cache, timestamp, table, now) ==
    IF ActiveRows(table) # {}
    THEN [cache |-> ActiveRows(table), timestamp |-> [set |-> TRUE, at |-> now]]
    ELSE [cache |-> cache, timestamp |-> timestamp]

\* if not self._is_cache_valid(): await self._refresh_cache()
Refreshed(cache, timestamp, table, now) ==
    IF _is_cache_valid(timestamp, now)
    THEN [cache |-> cache, timestamp |-> timestamp]
    ELSE _refresh_cache(cache, timestamp, table, now)

\* self._cache.get(name)
CacheGet(cache, name) ==
    IF \E prompt \in cache : prompt.name = name
    THEN CHOOSE prompt \in cache : prompt.name = name
    ELSE NoPrompt

Writes == {"create_prompt", "update_prompt", "deactivate_prompt", "activate_prompt"}

\* the last call was a write that reported success
AfterWrite == last_call.op \in Writes /\ last_call.ok

PromptInit ==
    /\ ai_prompts \in [PromptNames -> {NoRow, Row(TRUE, "text 1"), Row(FALSE, "text 1")}]
    /\ _cache = {}
    /\ _cache_timestamp = NoTimestamp
    /\ prompt_clock = 0
    /\ last_call = [op |-> "none"]
    /\ NormIdle
    /\ DedupIdle
    /\ DigestIdle
    /\ ReplaceIdle
    /\ EvalIdle
    /\ RunIdle

\* The prompt returned is a set: empty for None, else the one prompt.
get_prompt(name) ==
    /\ \E after \in {Refreshed(_cache, _cache_timestamp, ai_prompts, prompt_clock)} :
          /\ _cache' = after.cache
          /\ _cache_timestamp' = after.timestamp
          /\ last_call' = [op |-> "get_prompt", name |-> name,
                           after_write |-> AfterWrite,
                           returned |-> {CacheGet(after.cache, name)} \ {NoPrompt}]
    /\ UNCHANGED <<ai_prompts, prompt_clock, normVars, dedupVars, digestVars,
                   replaceVars, evalVars, runVars>>

list_all_prompts ==
    /\ \E after \in {Refreshed(_cache, _cache_timestamp, ai_prompts, prompt_clock)} :
          /\ _cache' = after.cache
          /\ _cache_timestamp' = after.timestamp
          /\ last_call' = [op |-> "list_all_prompts", name |-> "",
                           after_write |-> AfterWrite, returned |-> after.cache]
    /\ UNCHANGED <<ai_prompts, prompt_clock, normVars, dedupVars, digestVars,
                   replaceVars, evalVars, runVars>>

\* The insert of a name the table does not hold yet.
create_prompt(name, prompt_text) ==
    /\ ~ai_prompts[name].present
    /\ ai_prompts' = [ai_prompts EXCEPT ![name] = Row(TRUE, prompt_text)]
    /\ _cache_timestamp' = NoTimestamp
    /\ last_call' = [op |-> "create_prompt", name |-> name, ok |-> TRUE]
    /\ UNCHANGED <<_cache, prompt_clock, normVars, dedupVars, digestVars, replaceVars,
                   evalVars, runVars>>

\* update(update_data).eq('name', name): the reply holds the rows it changed.
UpdateRow(op, name, row) ==
    /\ IF ai_prompts[name].present
       THEN /\ ai_prompts' = [ai_prompts EXCEPT ![name] = row]
            /\ _cache_timestamp' = NoTimestamp
            /\ last_call' = [op |-> op, name |-> name, ok |-> TRUE]
       ELSE /\ last_call' = [op |-> op, name |-> name, ok |-> FALSE]
            /\ UNCHANGED <<ai_prompts, _cache_timestamp>>
    /\ UNCHANGED <<_cache, prompt_clock, normVars, dedupVars, digestVars, replaceVars,
                   evalVars, runVars>>

update_prompt(name, prompt_text) ==
    UpdateRow("update_prompt", name, [ai_prompts[name] EXCEPT !.prompt_text = prompt_text])

deactivate_prompt(name) ==
    UpdateRow("deactivate_prompt", name, [ai_prompts[name] EXCEPT !.active = FALSE])

activate_prompt(name) ==
    UpdateRow("activate_prompt", name, [ai_prompts[name] EXCEPT !.active = TRUE])

\* a minute passes
PromptTick ==
    /\ prompt_clock < MaxPromptClock
    /\ prompt_clock' = prompt_clock + 1
    /\ UNCHANGED <<ai_prompts, _cache, _cache_timestamp, last_call, normVars, dedupVars,
                   digestVars, replaceVars, evalVars, runVars>>

PromptNext ==
    \/ \E name \in PromptNames : get_prompt(name)
    \/ list_all_prompts
    \/ \E name \in PromptNames, prompt_text \in PromptTexts : create_prompt(name, prompt_text)
    \/ \E name \in PromptNames, prompt_text \in PromptTexts : update_prompt(name, prompt_text)
    \/ \E name \in PromptNames : deactivate_prompt(name)
    \/ \E name \in PromptNames : activate_prompt(name)
    \/ PromptTick

SpecPrompt == PromptInit /\ [][PromptNext]_vars

(***************************************************************************)
(* Properties of PromptService (under SpecPrompt).                         *)
(***************************************************************************)

\* C29: the first get_prompt or list_all_prompts after a successful write
\* returns what the table holds as active then: the named prompt if its row is
\* active and None if not, or the set of all active prompts.
ReadAfterWriteSeesTable ==
    /\ last_call.op = "get_prompt" /\ last_call.after_write
          => last_call.returned
                 = {prompt \in ActiveRows(ai_prompts) : prompt.name = last_call.name}
    /\ last_call.op = "list_all_prompts" /\ last_call.after_write
          => last_call.returned = ActiveRows(ai_prompts)


(***************************************************************************)
(* run_ai_digest_pipeline.  The run is followed from one awaited call to   *)
(* the next; calls lists the collaborators' methods in the order they were *)
(* called.  storage_up says whether the writes of DigestStorage succeed.   *)
(***************************************************************************)
MaxCollected == 3

\* The argument of the run and the value target_date holds after
\* "if target_date is None: target_date = date.today()".
TargetDate(given) ==
    [given |-> given, kind |-> IF given = "None" THEN "date" ELSE given]

\* datetime.strptime(value, '%Y-%m-%d'): a TypeError unless value is a str.
strptime(value) ==
    IF value.kind = "str" THEN [raised |-> FALSE, kind |-> "datetime"]
    ELSE [raised |-> TRUE, kind |-> "TypeError"]

\* DigestStorage.get_daily_digest: digest_date.isoformat() fails on a str,
\* and the method answers None for every exception.
get_daily_digest(digest_date, exists) ==
    IF digest_date.kind = "date" THEN exists ELSE FALSE

\* return True / the except clause's return False
Return(value) ==
    /\ run_returned' = value
    /\ run_pc' = "returned"

RunInit ==
    /\ target_date \in {TargetDate(given) : given \in {"None", "date", "str"}}
    /\ existing_digest \in BOOLEAN
    /\ total_count \in 0..MaxCollected
    /\ selected_count \in 0..total_count
    /\ storage_up \in BOOLEAN
    /\ calls = << >>
    /\ run_pc = "start"
    /\ run_returned = "none"
    /\ NormIdle
    /\ DigestIdle
    /\ DedupIdle
    /\ ReplaceIdle
    /\ EvalIdle
    /\ PromptIdle

CheckExisting ==
    /\ run_pc = "start"
    /\ calls' = Append(calls, "get_daily_digest")
    /\ IF get_daily_digest(target_date, existing_digest)
       THEN Return("True")
       ELSE run_pc' = "collect" /\ UNCHANGED run_returned
    /\ UNCHANGED <<target_date, existing_digest, total_count, selected_count, storage_up,
                   normVars, dedupVars, digestVars, replaceVars, evalVars, promptVars>>

GetDailyContent ==
    /\ run_pc = "collect"
    /\ calls' = Append(calls, "get_daily_content")
    /\ IF total_count = 0
       THEN Return("False")
       ELSE run_pc' = "select" /\ UNCHANGED run_returned
    /\ UNCHANGED <<target_date, existing_digest, total_count, selected_count, storage_up,
                   normVars, dedupVars, digestVars, replaceVars, evalVars, promptVars>>

CreateDailyDigest ==
    /\ run_pc = "select"
    /\ calls' = Append(calls, "create_daily_digest")
    /\ IF selected_count = 0
       THEN Return("False")
       ELSE run_pc' = "store_articles" /\ UNCHANGED run_returned
    /\ UNCHANGED <<target_date, existing_digest, total_count, selected_count, storage_up,
                   normVars, dedupVars, digestVars, replaceVars, evalVars, promptVars>>

StoreAllArticles ==
    /\ run_pc = "store_articles"
    /\ calls' = Append(calls, "store_all_articles")
    /\ IF storage_up
       THEN run_pc' = "store_digest" /\ UNCHANGED run_returned
       ELSE Return("False")
    /\ UNCHANGED <<target_date, existing_digest, total_count, selected_count, storage_up,
                   normVars, dedupVars, digestVars, replaceVars, evalVars, promptVars>>

\* The argument digest_date is computed before the call is made.
StoreDailyDigest ==
    /\ run_pc = "store_digest"
    /\ IF strptime(target_date).raised
       THEN Return("False") /\ UNCHANGED calls
       ELSE /\ calls' = Append(calls, "store_daily_digest")
            /\ Return(IF storage_up THEN "True" ELSE "False")
    /\ UNCHANGED <<target_date, existing_digest, total_count, selected_count, storage_up,
                   normVars, dedupVars, digestVars, replaceVars, evalVars, promptVars>>

RunNext ==
    \/ CheckExisting
    \/ GetDailyContent
    \/ CreateDailyDigest
    \/ StoreAllArticles
    \/ StoreDailyDigest

SpecRun == RunInit /\ [][RunNext]_vars

(***************************************************************************)
(* Properties of run_ai_digest_pipeline (under SpecRun).                   *)
(***************************************************************************)

\* C30: a run with the default target date that has returned: if a digest
\* existed for the date, it returned True and called nothing after the
\* look-up; if none existed, an article was selected and the storage writes
\* succeed, it called store_all_articles, then store_daily_digest, and
\* returned True.
DefaultRunStoresAndSucceeds ==
    run_pc = "returned" /\ target_date.given = "None"
        => /\ existing_digest
                => run_returned = "True" /\ calls = <<"get_daily_digest">>
           /\ ~existing_digest /\ selected_count > 0 /\ storage_up
                => /\ run_returned = "True"
                   /\ calls = <<"get_daily_digest", "get_daily_content",
                                "create_daily_digest", "store_all_articles",
                                "store_daily_digest">>

=============================================================================
